---- MODULE Spec2Model ----
(***************************************************************************)
(* A model of pytorch_lightning/trainer/connectors/logger_connector/      *)
(* result.py: _Sync, _Metadata, ResultMetric, ResultMetricCollection and  *)
(* ResultCollection.                                                       *)
(*                                                                         *)
(* Conventions                                                             *)
(*  - Python strings are sequences of tokens (characters or longer        *)
(*    fragments), concatenated with \o as f-strings concatenate.          *)
(*  - Optional values are sequences: <<>> is None and <<x>> is x.         *)
(*  - A tensor is a record [data, dtype, grad]: data is its non-empty     *)
(*    sequence of elements (exact rationals [n, d]; 0/0 is NaN and +-1/0  *)
(*    the infinities of float division), dtype is "int" or "float", grad  *)
(*    says whether a grad_fn is attached.  Rounding is not modelled.      *)
(*  - Device placement is not modelled: `.to(device)` changes no number.  *)
(***************************************************************************)
EXTENDS Integers, Sequences, FiniteSets, TLC

VARIABLES
    training,     \* ResultCollection.training
    items,        \* the dict part of the ResultCollection: key -> entry
    order,        \* the dict's insertion order (Python dicts iterate in it)
    batch_size,   \* ResultCollection._batch_size
    minimize,     \* ResultCollection._minimize
    metricObjs,   \* the torchmetrics.Metric objects the caller holds and logs
    call,         \* the most recent call on the collection and its arguments
    err,          \* the exception that call raised ("" when it returned)
    ret,          \* what that call returned (the writes and syncs it made, the leaves updated under no_grad)
    hist,         \* per accumulator, the updates made since creation or its last reset
    pc,           \* position of the driver loop of the integration scenario
    peer          \* a second process's collection, given the same calls (None when there is none)

vars == <<training, items, order, batch_size, minimize, metricObjs, call, err, ret, hist, pc, peer>>

-----------------------------------------------------------------------------
(* Bounds of the model *)

MaxUpdates == 3
MaxSteps == 2
MaxEpochs == 2
MaxReadUpdates == 2
MaxForwards == 1
RecursionLimit == 5

-----------------------------------------------------------------------------
(* Optional values *)

None == <<>>
Some(x) == <<x>>
IsNone(o) == o = <<>>
Get(o) == o[1]

-----------------------------------------------------------------------------
(* Exact rational arithmetic standing in for float arithmetic *)

Abs(i) == IF i < 0 THEN -i ELSE i
Sign(i) == IF i < 0 THEN -1 ELSE IF i = 0 THEN 0 ELSE 1

RECURSIVE Gcd(_, _)
Gcd(a, b) == IF b = 0 THEN a ELSE Gcd(b, a % b)

\* the canonical form of n/d: d >= 0, lowest terms; d = 0 gives nan (0/0) or +-inf
Rat(n, d) ==
    IF d = 0 THEN [n |-> Sign(n), d |-> 0]
    ELSE LET g == Gcd(Abs(n), Abs(d))
             s == Sign(d)
         IN  [n |-> (s * n) \div g, d |-> (s * d) \div g]

RInt(i) == [n |-> i, d |-> 1]
RAdd(a, b) == Rat(a.n * b.d + b.n * a.d, a.d * b.d)
RMul(a, b) == Rat(a.n * b.n, a.d * b.d)
RDiv(a, b) == Rat(a.n * b.d, a.d * b.n)
RLess(a, b) == a.n * b.d < b.n * a.d
RMaxOf(a, b) == IF RLess(a, b) THEN b ELSE a
RMinOf(a, b) == IF RLess(b, a) THEN b ELSE a
RIsNaN(a) == a.n = 0 /\ a.d = 0

-----------------------------------------------------------------------------
(* Tensors *)

Tensor(data, dtype, grad) == [data |-> data, dtype |-> dtype, grad |-> grad]

\* torch.tensor(i): an integer scalar;  torch.tensor(i, dtype=torch.float)
IntScalar(i) == Tensor(<<RInt(i)>>, "int", FALSE)
FloatScalar(i) == Tensor(<<RInt(i)>>, "float", FALSE)

RECURSIVE RSum(_)
RSum(s) == IF s = <<>> THEN RInt(0) ELSE RAdd(s[1], RSum(Tail(s)))

\* Tensor.float(): same elements, floating dtype
ToFloat(t) == [t EXCEPT !.dtype = "float"]

\* Tensor.detach(): same elements, no grad_fn
Detach(t) == [t EXCEPT !.grad = FALSE]

\* Tensor.mean(): a scalar, the sum of the elements over their number
TMean(t) == Tensor(<<RDiv(RSum(t.data), RInt(Len(t.data)))>>, t.dtype, t.grad)

\* the dtype of a binary operation's result (type promotion)
Promote(a, b) == IF a.dtype = "float" \/ b.dtype = "float" THEN "float" ELSE "int"

\* scalar (op) scalar; under torch.no_grad() (track = FALSE) the result has no grad_fn
TMul(a, b, track) == Tensor(<<RMul(a.data[1], b.data[1])>>, Promote(a, b), track /\ (a.grad \/ b.grad))
TAdd(a, b, track) == Tensor(<<RAdd(a.data[1], b.data[1])>>, Promote(a, b), track /\ (a.grad \/ b.grad))
TDiv(a, b, track) == Tensor(<<RDiv(a.data[1], b.data[1])>>, "float", track /\ (a.grad \/ b.grad))
TMax(a, b, track) == Tensor(<<RMaxOf(a.data[1], b.data[1])>>, Promote(a, b), track /\ (a.grad \/ b.grad))
TMin(a, b, track) == Tensor(<<RMinOf(a.data[1], b.data[1])>>, Promote(a, b), track /\ (a.grad \/ b.grad))

\* bool(tensor) of a one-element tensor: false exactly for zero (NaN is truthy)
Truthy(t) == ~(t.data[1].n = 0 /\ t.data[1].d # 0)

-----------------------------------------------------------------------------
(* Strings *)

\* str(i) for the small integers used as loader indices
IntStr(i) == <<"0", "1", "2", "3", "4", "5", "6", "7", "8", "9">>[i + 1]

\* str.lower(), character by character, on the letters reduction names are made of
LowerChar(c) ==
    CASE c = "A" -> "a" [] c = "E" -> "e" [] c = "G" -> "g" [] c = "I" -> "i"
      [] c = "M" -> "m" [] c = "N" -> "n" [] c = "S" -> "s" [] c = "U" -> "u"
      [] c = "V" -> "v" [] c = "X" -> "x"
      [] OTHER -> c
\* a lower() that leaves the string as it is
Lower_Identity(s) == s

\* str.lower()
Lower(s) == [i \in DOMAIN s |-> LowerChar(s[i])]

-----------------------------------------------------------------------------
(* class MetricSource *)

CALLBACK == "callback"
PBAR == "pbar"
LOG == "log"
MetricSource == {CALLBACK, PBAR, LOG}

-----------------------------------------------------------------------------
(* class _Sync *)

\* the number of processes of the group the all-reduce stand-in runs in
WorldSize == 2

\* _Sync.no_op
no_op(value) == value

\* The injected sync_dist_fn(value, reduce_op=, group=).  "no_op" is the default
\* (_Sync.no_op); "all_reduce" stands for a collective among WorldSize processes
\* that all hold the same value: a sum of WorldSize copies for "sum", the value
\* itself for "mean" (the sum over the number of processes), "max" and "min".
CallSyncFn(fn, value, reduce_op, group) ==
    IF fn = "all_reduce" /\ reduce_op = "sum"
    THEN [value EXCEPT !.data = [i \in DOMAIN value.data |-> RMul(value.data[i], RInt(WorldSize))]]
    ELSE value

_Sync(fn, should, op, group) == [fn |-> fn, should |-> should, op |-> op, group |-> group]

\* a call that goes to the injected function whether or not `should` is set
SyncCall_Always(sync, value) == CallSyncFn(sync.fn, value, sync.op, sync.group)

\* _Sync.__call__ applied to a value
SyncCall(sync, value) ==
    IF sync.should THEN CallSyncFn(sync.fn, value, sync.op, sync.group) ELSE no_op(value)

\* the collective calls SyncCall(sync, .) issues: one (op, group) when enabled
SyncTrace(sync) == IF sync.should THEN <<[op |-> sync.op, group |-> sync.group]>> ELSE <<>>

-----------------------------------------------------------------------------
(* class _Metadata *)

\* the callables that may be passed as reduce_fx, by name; torch.median stands
\* for any callable that is none of the supported reductions
Callables == {"torch.mean", "torch.sum", "sum", "torch.max", "max", "torch.min", "min", "torch.median"}

\* callable.__name__
FnName(f) ==
    CASE f = "torch.mean" -> "mean"
      [] f \in {"torch.sum", "sum"} -> "sum"
      [] f \in {"torch.max", "max"} -> "max"
      [] f \in {"torch.min", "min"} -> "min"
      [] OTHER -> "median"

\* getattr(torch, name) for the four accepted names
GetattrTorch(s) ==
    CASE s = <<"m", "i", "n">> -> "torch.min"
      [] s = <<"m", "a", "x">> -> "torch.max"
      [] s = <<"m", "e", "a", "n">> -> "torch.mean"
      [] s = <<"s", "u", "m">> -> "torch.sum"

is_mean_reduction(meta) == meta.reduce_fx = "torch.mean"
is_sum_reduction(meta) == meta.reduce_fx \in {"torch.sum", "sum"}
is_max_reduction(meta) == meta.reduce_fx \in {"torch.max", "max"}
is_min_reduction(meta) == meta.reduce_fx \in {"torch.min", "min"}
is_custom_reduction(meta) ==
    ~(is_mean_reduction(meta) \/ is_max_reduction(meta) \/ is_min_reduction(meta) \/ is_sum_reduction(meta))

\* The reduce_fx argument is [str |-> TRUE, v |-> its characters] for a string
\* and [str |-> FALSE, v |-> <<its name>>] for a callable.
StrFx(chars) == [str |-> TRUE, v |-> chars]
CallableFx(f) == [str |-> FALSE, v |-> <<f>>]

\* __post_init__, first half: the reduce_fx the dataclass ends up holding, or
\* None when it raises MisconfigurationException
NormalizeReduceFx(reduce_fx) ==
    IF reduce_fx.str
    THEN LET low == Lower(reduce_fx.v)
             r == IF low = <<"a", "v", "g">> THEN <<"m", "e", "a", "n">> ELSE low
         IN  IF r \notin {<<"m", "i", "n">>, <<"m", "a", "x">>, <<"m", "e", "a", "n">>, <<"s", "u", "m">>}
             THEN None
             ELSE Some(GetattrTorch(r))
    ELSE IF is_custom_reduction([reduce_fx |-> reduce_fx.v[1]])
         THEN None
         ELSE Some(reduce_fx.v[1])

\* _Metadata(...): the dataclass after __post_init__ (sync.op set to the
\* reduction's __name__), or None when __post_init__ raises
_Metadata(fx, name, prog_bar, logger, on_step, on_epoch, reduce_fx, enable_graph, dataloader_idx, sync) ==
    LET r == NormalizeReduceFx(reduce_fx)
    IN  IF IsNone(r) THEN None
        ELSE Some([fx |-> fx, name |-> name, prog_bar |-> prog_bar, logger |-> logger,
                   on_step |-> on_step, on_epoch |-> on_epoch, reduce_fx |-> Get(r),
                   enable_graph |-> enable_graph, dataloader_idx |-> dataloader_idx,
                   sync |-> [sync EXCEPT !.op = FnName(Get(r))]])

forked(meta) == meta.on_step /\ meta.on_epoch

\* a name that gets the fork suffix whether or not the entry is forked
forked_name_AlwaysSuffix(meta, on_step) == meta.name \o <<IF on_step THEN "_step" ELSE "_epoch">>

\* _Metadata.forked_name
forked_name(meta, on_step) ==
    IF forked(meta)
    THEN meta.name \o <<IF on_step THEN "_step" ELSE "_epoch">>
    ELSE meta.name

-----------------------------------------------------------------------------
(* torchmetrics.Metric, the base class of ResultMetric and of the metric     *)
(* objects a caller logs.  Its code is not part of the repository; what is  *)
(* modelled is what result.py relies on.                                    *)

\* Metric.__init__: no cached values, update not called yet
MetricBaseInit == [_forward_cache |-> None, _computed |-> None, _update_called |-> FALSE]

\* the wrapper Metric.__init__ puts around update(): drop the memoized compute
\* result and note that update was called
WrapUpdate(m) == [m EXCEPT !._computed = None, !._update_called = TRUE]

\* Metric.reset() of a ResultMetric holding tensors: every state registered with
\* add_state goes back to its default, the caches are dropped
MetricBaseReset(m) ==
    [m EXCEPT !.value = Some(Tensor(<<RInt(0)>>, "float", FALSE)),
              !.cumulated_batch_size = IF IsNone(m.cumulated_batch_size) THEN None
                                       ELSE Some(Tensor(<<RInt(0)>>, "float", FALSE)),
              !._computed = None,
              !._forward_cache = None,
              !._update_called = FALSE]

-----------------------------------------------------------------------------
(* DummyMetric of tests/core/test_metric_result_integration.py: the metric  *)
(* object callers log.  State x, default 0; update adds; compute returns x. *)

DummyMetric == [x |-> IntScalar(0), _forward_cache |-> None, _computed |-> None, _update_called |-> FALSE]

\* metric(v): accumulate v into x and keep the value of this batch alone in
\* _forward_cache; the memoized compute result is dropped
DummyForward(obj, v) ==
    [obj EXCEPT !.x = TAdd(obj.x, v, FALSE),
                !._forward_cache = Some(TAdd(IntScalar(0), v, FALSE)),
                !._computed = None,
                !._update_called = TRUE]

\* metric.compute(): x, memoized in _computed
DummyCompute(obj) ==
    IF ~IsNone(obj._computed) THEN [out |-> Get(obj._computed), obj |-> obj]
    ELSE [out |-> obj.x, obj |-> [obj EXCEPT !._computed = Some(obj.x)]]

\* metric.reset(): x back to its default, caches dropped
DummyReset(obj) == DummyMetric

-----------------------------------------------------------------------------
(* class ResultMetric *)

\* ResultMetric.__init__.  `value` holds the tensor state of a tensor metric;
\* `delegate` holds what `self.value` is for a non-tensor metric: the name of
\* the logged Metric object (None before the first update).
ResultMetric(metadata, is_tensor) ==
    [is_tensor |-> is_tensor,
     meta |-> metadata,
     has_reset |-> FALSE,
     value |-> IF is_tensor THEN Some(FloatScalar(0)) ELSE None,
     cumulated_batch_size |-> IF is_tensor /\ is_mean_reduction(metadata) THEN Some(FloatScalar(0)) ELSE None,
     delegate |-> None,
     _forward_cache |-> MetricBaseInit._forward_cache,
     _computed |-> MetricBaseInit._computed,
     _update_called |-> MetricBaseInit._update_called]

\* a mean accumulation that forgets the batch weight
MeanValueStep_Unweighted(cur, value, bs, track) == TAdd(cur, TMean(value), track)

\* update(), mean reduction: self.value += value.mean() * batch_size
MeanValueStep(cur, value, bs, track) == TAdd(cur, TMul(TMean(value), bs, track), track)

\* update(), mean reduction: self.cumulated_batch_size += batch_size
CumulatedStep(cum, bs, track) == TAdd(cum, bs, track)

\* update(), max and min reduction: self.value = self.meta.reduce_fx(self.value, value.mean())
ExtremeStep(meta, cur, value, track) ==
    IF is_max_reduction(meta) THEN TMax(cur, TMean(value), track) ELSE TMin(cur, TMean(value), track)

\* a sum accumulation that adds the first element instead of the mean
SumValueStep_FirstElement(cur, value, bs, track) ==
    TAdd(cur, TMul(Tensor(<<value.data[1]>>, value.dtype, value.grad), bs, track), track)

\* update(), sum reduction: self.value += value.mean() * batch_size
SumValueStep(cur, value, bs, track) == TAdd(cur, TMul(TMean(value), bs, track), track)

\* an update that accumulates whatever the timing
StepOnly_Never(meta) == FALSE

\* update(): `if self.meta.on_step and not self.meta.on_epoch:`
StepOnly(meta) == meta.on_step /\ ~meta.on_epoch

\* ResultMetric.update(value, batch_size), the body of the method.  A leaf v is
\* [is_tensor, t, m]: the tensor t, or the Metric object named m.  `track` says
\* whether gradient tracking is on.  Returns the metric and the collective
\* calls made.
update(self, v, bs, objs, track) ==
    IF self.is_tensor
    THEN LET value == ToFloat(v.t)
             m1 == [self EXCEPT !._forward_cache = Some(value)]
             cur == Get(self.value)
         IN  IF StepOnly(self.meta)
             THEN [m |-> [m1 EXCEPT !.value = Some(SyncCall(self.meta.sync, value))],
                   syncs |-> SyncTrace(self.meta.sync)]
             ELSE IF is_mean_reduction(self.meta)
             THEN [m |-> [m1 EXCEPT !.value = Some(MeanValueStep(cur, value, bs, track)),
                                    !.cumulated_batch_size =
                                        Some(CumulatedStep(Get(self.cumulated_batch_size), bs, track))],
                   syncs |-> <<>>]
             ELSE IF is_max_reduction(self.meta) \/ is_min_reduction(self.meta)
             THEN [m |-> [m1 EXCEPT !.value = Some(ExtremeStep(self.meta, cur, value, track))],
                   syncs |-> <<>>]
             ELSE IF is_sum_reduction(self.meta)
             THEN [m |-> [m1 EXCEPT !.value = Some(SumValueStep(cur, value, bs, track))],
                   syncs |-> <<>>]
             ELSE [m |-> m1, syncs |-> <<>>]
    ELSE [m |-> [self EXCEPT !.delegate = Some(v.m),
                             !._forward_cache = objs[v.m]._forward_cache],
          syncs |-> <<>>]

\* self.update as callers see it: the base class's wrapper, then the method
wrapped_update(self, v, bs, objs, track) == update(WrapUpdate(self), v, bs, objs, track)

\* ResultMetric.forward: `if self.meta.enable_graph:`, the condition under
\* which update runs inside `with torch.no_grad():`
NoGradScope(meta) == meta.enable_graph

\* ResultMetric.forward: update under torch.no_grad() when enable_graph is set,
\* a plain update otherwise.  Returns what update returns and whether it ran
\* under torch.no_grad().
forward(self, v, bs, objs) ==
    IF NoGradScope(self.meta)
    THEN [r |-> wrapped_update(self, v, bs, objs, FALSE), no_grad |-> TRUE]
    ELSE [r |-> wrapped_update(self, v, bs, objs, TRUE), no_grad |-> FALSE]

\* ResultMetric.compute(), the body of the method: the result, the Metric
\* objects afterwards (a delegate memoizes its own result) and the collective
\* calls made
compute(self, objs) ==
    IF self.is_tensor
    THEN LET value == SyncCall(self.meta.sync, Get(self.value))
         IN  IF is_mean_reduction(self.meta)
             THEN LET cumulated_batch_size == SyncCall(self.meta.sync, Get(self.cumulated_batch_size))
                  IN  [out |-> TDiv(value, cumulated_batch_size, TRUE), objs |-> objs,
                       syncs |-> SyncTrace(self.meta.sync) \o SyncTrace(self.meta.sync)]
             ELSE [out |-> value, objs |-> objs, syncs |-> SyncTrace(self.meta.sync)]
    ELSE LET d == Get(self.delegate)
             r == DummyCompute(objs[d])
         IN  [out |-> r.out, objs |-> [objs EXCEPT ![d] = r.obj], syncs |-> <<>>]

\* a compute that runs the reduction on every call
wrapped_compute_NoMemo(self, objs) ==
    LET r == compute(self, objs)
    IN  [out |-> r.out, m |-> [self EXCEPT !._computed = Some(r.out)], objs |-> r.objs,
         syncs |-> r.syncs, warned |-> ~self._update_called]

\* ResultMetric._wrap_compute: self.compute as callers see it.  Warns when
\* update was not called; returns the memoized result when there is one.
wrapped_compute(self, objs) ==
    IF ~IsNone(self._computed)
    THEN [out |-> Get(self._computed), m |-> self, objs |-> objs, syncs |-> <<>>,
          warned |-> ~self._update_called]
    ELSE LET r == compute(self, objs)
         IN  [out |-> r.out, m |-> [self EXCEPT !._computed = Some(r.out)], objs |-> r.objs,
              syncs |-> r.syncs, warned |-> ~self._update_called]

\* a reset that only raises the flag
reset_metric_FlagOnly(self, objs) == [m |-> [self EXCEPT !.has_reset = TRUE], objs |-> objs]

\* ResultMetric.reset()
reset_metric(self, objs) ==
    IF self.is_tensor
    THEN [m |-> [MetricBaseReset(self) EXCEPT !.has_reset = TRUE], objs |-> objs]
    ELSE [m |-> [self EXCEPT !.has_reset = TRUE],
          objs |-> [objs EXCEPT ![Get(self.delegate)] = DummyReset(@)]]

-----------------------------------------------------------------------------
(* Logged values and dict helpers *)

\* an assignment that leaves k as the dict's only key
Put_Only(d, k, v) == [x \in {k} |-> v]

\* d[k] = v, as a Python dict assignment: a new key is added, an old one rebound
Put(d, k, v) == [x \in (DOMAIN d) \cup {k} |-> IF x = k THEN v ELSE d[x]]

\* the one leaf of a value that is not a mapping
SelfLeaf == "self"

\* A logged value is [dict, leaves]: a mapping from leaf names to leaves when
\* dict, one leaf under SelfLeaf otherwise.  A leaf is a tensor or a Metric.
TensorLeaf(t) == [is_tensor |-> TRUE, t |-> t, m |-> ""]
MetricLeaf(m) == [is_tensor |-> FALSE, t |-> IntScalar(0), m |-> m]
Single(leaf) == [dict |-> FALSE, leaves |-> [x \in {SelfLeaf} |-> leaf]]
Mapping(leaves) == [dict |-> TRUE, leaves |-> leaves]

-----------------------------------------------------------------------------
(* class ResultCollection *)

\* DATALOADER_SUFFIX.format(idx)
DATALOADER_SUFFIX(idx) == <<"/dataloader_idx_", IntStr(idx)>>

\* the key the extras are stored under in the dict itself
ExtraKey == <<"_extra">>

\* An entry of the dict: kind "metric" (a ResultMetric, its one leaf under
\* SelfLeaf), "collection" (a ResultMetricCollection: leaves and their shared
\* metadata) or "extra" (the payload stored by the extra setter).
MetricEntry(m) == [kind |-> "metric", meta |-> Some(m.meta), leaves |-> [x \in {SelfLeaf} |-> m], payload |-> <<>>]
ResultMetricCollection(leaves, metadata) ==
    [kind |-> "collection", meta |-> Some(metadata), leaves |-> leaves, payload |-> <<>>]
ExtraEntry(payload) == [kind |-> "extra", meta |-> None, leaves |-> <<>>, payload |-> payload]

\* log(): the storage key, f"{fx}.{name}" plus f".{dataloader_idx}"
StorageKey(fx, name, dataloader_idx) ==
    fx \o <<".">> \o name \o
    (IF IsNone(dataloader_idx) THEN <<>> ELSE <<".", IntStr(Get(dataloader_idx))>>)

\* log(): the fx the metadata is built with, fx plus f".{dataloader_idx}"
MetaFx(fx, dataloader_idx) ==
    fx \o (IF IsNone(dataloader_idx) THEN <<>> ELSE <<".", IntStr(Get(dataloader_idx))>>)

\* log(): a tensor value is detached unless enable_graph; values inside a
\* mapping are not touched
LogDetach(value, enable_graph) ==
    IF ~enable_graph /\ ~value.dict /\ value.leaves[SelfLeaf].is_tensor
    THEN Single(TensorLeaf(Detach(value.leaves[SelfLeaf].t)))
    ELSE value

\* log(): the metadata built from the arguments a (None when it raises)
LogMeta(a) ==
    _Metadata(MetaFx(a.fx, a.dataloader_idx), a.name, a.prog_bar, a.logger, a.on_step, a.on_epoch,
              a.reduce_fx, a.enable_graph, a.dataloader_idx,
              _Sync(a.sync_dist_fn, a.sync_dist, None, a.sync_dist_group))

\* a comparison of metadata that looks at the timing flags only
MetaDiffers_TimingOnly(meta, stored) == meta.on_step # stored.on_step \/ meta.on_epoch # stored.on_epoch

\* log(): meta != self[key].meta, dataclass equality over every field
MetaDiffers(meta, stored) == meta # stored

\* register_key: one ResultMetric per leaf, wrapped in a ResultMetricCollection
\* when the value is a dict
register_key(d, key, meta, value) ==
    LET made == [x \in DOMAIN value.leaves |-> ResultMetric(meta, value.leaves[x].is_tensor)]
    IN  Put(d, key, IF value.dict THEN ResultMetricCollection(made, meta) ELSE MetricEntry(made[SelfLeaf]))

\* an update that leaves the has_reset flag as it was
ClearReset_Noop(m) == m

\* update_metrics, inside fn: v.has_reset = False
ClearReset(m) == [m EXCEPT !.has_reset = FALSE]

\* a pairing that hands every ResultMetric the same leaf of the value
LeafFor_Any(value, x) == value.leaves[CHOOSE y \in DOMAIN value.leaves : TRUE]

\* update_metrics: apply_to_collections(self[key], value, ResultMetric, fn), the
\* leaf of the value that fn is given together with the ResultMetric named x
LeafFor(value, x) == value.leaves[x]

\* update_metrics: forward every leaf of the value into the ResultMetric of the
\* same name and clear its has_reset.  Returns the dict, the collective calls
\* and the leaves updated under torch.no_grad().
update_metrics(d, key, value, bs, objs) ==
    LET entry == d[key]
        fwd == [x \in DOMAIN entry.leaves |-> forward(entry.leaves[x], LeafFor(value, x), bs, objs)]
        res == [x \in DOMAIN entry.leaves |-> fwd[x].r]
        new == [x \in DOMAIN entry.leaves |-> ClearReset(res[x].m)]
        names == DOMAIN entry.leaves
        RECURSIVE Syncs(_)
        Syncs(S) == IF S = {} THEN <<>>
                    ELSE LET x == CHOOSE y \in S : TRUE
                         IN  [i \in DOMAIN res[x].syncs |->
                                 [key |-> key, leaf |-> x, op |-> res[x].syncs[i].op,
                                  group |-> res[x].syncs[i].group]] \o Syncs(S \ {x})
    IN  [d |-> [d EXCEPT ![key] = [entry EXCEPT !.leaves = new]], syncs |-> Syncs(names),
         no_grad |-> {x \in names : fwd[x].no_grad}]

\* the batch_size setter: torch.tensor(value)
BatchSizeTensor(value) == IntScalar(value)

\* the names in S as a sequence, in a fixed order
RECURSIVE SetToSeq(_)
SetToSeq(S) == IF S = {} THEN <<>> ELSE LET x == CHOOSE y \in S : TRUE IN <<x>> \o SetToSeq(S \ {x})

\* a step read that exposes the forward cache whatever the metadata says
StepCacheApplies_AnyMeta(rm, on_step) == on_step

\* _get_cache: `on_step and result_metric.meta.on_step`
StepCacheApplies(rm, on_step) == on_step /\ rm.meta.on_step

\* an epoch read that exposes the computed value whatever the metadata says
EpochCacheApplies_AnyMeta(rm, on_step) == ~on_step

\* _get_cache: `not on_step and result_metric.meta.on_epoch`
EpochCacheApplies(rm, on_step) == ~on_step /\ rm.meta.on_epoch

\* _get_cache(result_metric, on_step): the cached value to expose, or None;
\* an epoch read computes (and memoizes) when nothing truthy is memoized
_get_cache(rm, on_step, objs) ==
    LET r == IF StepCacheApplies(rm, on_step)
             THEN [cache |-> rm._forward_cache, m |-> rm, objs |-> objs, syncs |-> <<>>]
             ELSE IF EpochCacheApplies(rm, on_step)
             THEN IF IsNone(rm._computed) \/ ~Truthy(Get(rm._computed))
                  THEN LET c == wrapped_compute(rm, objs)
                       IN  [cache |-> c.m._computed, m |-> c.m, objs |-> c.objs, syncs |-> c.syncs]
                  ELSE [cache |-> rm._computed, m |-> rm, objs |-> objs, syncs |-> <<>>]
             ELSE [cache |-> None, m |-> rm, objs |-> objs, syncs |-> <<>>]
    IN  IF ~IsNone(r.cache) /\ ~rm.meta.enable_graph
        THEN [r EXCEPT !.cache = Some(Detach(Get(r.cache)))]
        ELSE r

\* valid_items(): the keys it yields, in the dict's order
valid_items(d, ord) ==
    SelectSeq(ord, LAMBDA k : ~(k = ExtraKey) /\ ~(d[k].kind = "metric" /\ d[k].leaves[SelfLeaf].has_reset))

\* names that never get the loader suffix
_forked_name_NoSuffix(meta, on_step) == <<meta.name, forked_name(meta, on_step)>>

\* _forked_name(result_metric, on_step): <<name, forked_name>>
_forked_name(meta, on_step) ==
    LET suffix == IF IsNone(meta.dataloader_idx) THEN <<>> ELSE DATALOADER_SUFFIX(Get(meta.dataloader_idx))
    IN  <<meta.name \o suffix, forked_name(meta, on_step) \o suffix>>

\* metrics_to_scalars(value): every tensor becomes the number tensor.item()
\* gives; None when a tensor has more than one element (item() raises)
metrics_to_scalars(value) ==
    IF \E x \in DOMAIN value.leaves : Len(value.leaves[x].data) # 1
    THEN None
    ELSE Some([value EXCEPT !.leaves = [x \in DOMAIN value.leaves |->
                                          Tensor(value.leaves[x].data, "number", FALSE)]])

EmptyBuckets == [k \in MetricSource |-> <<>>]

\* callback metrics filled only by epoch reads of on_epoch entries
CallbackVisible_NoTraining(train, meta, on_step) == meta.on_epoch /\ ~on_step

\* metrics(): `self.training or result_metric.meta.on_epoch and not on_step`
CallbackVisible(train, meta, on_step) == train \/ (meta.on_epoch /\ ~on_step)

\* metrics(): the value _get_cache returned (r) for leaf x, recorded in c
CacheOf(c, x, r, key) ==
    [leaves |-> [c.leaves EXCEPT ![x] = r.m],
     objs |-> r.objs,
     vals |-> IF IsNone(r.cache) THEN c.vals ELSE Put(c.vals, x, Get(r.cache)),
     syncs |-> c.syncs \o [j \in DOMAIN r.syncs |->
                  [key |-> key, leaf |-> x, op |-> r.syncs[j].op, group |-> r.syncs[j].group]]]

\* metrics(): the dict and the Metric objects once the caches c of the entry
\* under key are extracted (compute() memoizes)
AfterCaches(acc, key, c) ==
    [acc EXCEPT !.d = [acc.d EXCEPT ![key].leaves = c.leaves],
                !.objs = c.objs,
                !.syncs = acc.syncs \o c.syncs]

\* metrics(): apply_to_collection(result_metric, ResultMetric, _get_cache,
\* on_step, include_none=False) over the leaves names[i..]; c holds the leaves,
\* the Metric objects, the values found and the collective calls made so far
RECURSIVE GetCaches(_, _, _, _, _)
GetCaches(c, names, i, key, on_step) ==
    IF i > Len(names) THEN c
    ELSE GetCaches(CacheOf(c, names[i], _get_cache(c.leaves[names[i]], on_step, c.objs), key),
                   names, i + 1, key, on_step)

\* one entry written into a bucket: the bucket, the name, the key it came from
BucketWrite(source, name, key, value) == [source |-> source, name |-> name, key |-> key, value |-> value]

\* logging metrics filled whatever the metadata says
PopulateLog_Always(acc, meta, key, fname, value) ==
    [acc EXCEPT !.buckets[LOG] = Put(@, fname, value),
                !.writes = Append(@, BucketWrite(LOG, fname, key, value))]

\* metrics(): `if result_metric.meta.logger: metrics[LOG][forked_name] = value`
PopulateLog(acc, meta, key, fname, value) ==
    IF meta.logger
    THEN [acc EXCEPT !.buckets[LOG] = Put(@, fname, value),
                     !.writes = Append(@, BucketWrite(LOG, fname, key, value))]
    ELSE acc

\* metrics(): the callback metrics, under the plain and the forked name
PopulateCallback(acc, meta, key, name, fname, value, on_step, train) ==
    IF CallbackVisible(train, meta, on_step)
    THEN [acc EXCEPT !.buckets[CALLBACK] = Put(Put(@, name, value), fname, value),
                     !.writes = @ \o <<BucketWrite(CALLBACK, name, key, value),
                                       BucketWrite(CALLBACK, fname, key, value)>>]
    ELSE acc

\* metrics(): the progress bar metrics, converted to numbers
PopulatePbar(acc, meta, key, fname, scalars) ==
    IF meta.prog_bar
    THEN IF IsNone(scalars)
         THEN [acc EXCEPT !.raised = "ValueError"]
         ELSE [acc EXCEPT !.buckets[PBAR] = Put(@, fname, Get(scalars)),
                          !.writes = Append(@, BucketWrite(PBAR, fname, key, Get(scalars)))]
    ELSE acc

\* metrics(): what follows the extraction of the caches c of the entry under key
Populate(acc, key, c, value, nm, on_step, train) ==
    IF DOMAIN c.vals = {}
    THEN AfterCaches(acc, key, c)
    ELSE PopulatePbar(
             PopulateCallback(
                 PopulateLog(AfterCaches(acc, key, c), Get(acc.d[key].meta), key, nm[2], value),
                 Get(acc.d[key].meta), key, nm[1], nm[2], value, on_step, train),
             Get(acc.d[key].meta), key, nm[2], metrics_to_scalars(value))

\* metrics(): the value of the entry (the caches found) and its names
PopulateFrom(acc, key, c, on_step, train) ==
    Populate(acc, key, c, [dict |-> acc.d[key].kind = "collection", leaves |-> c.vals],
             _forked_name(Get(acc.d[key].meta), on_step), on_step, train)

\* metrics(on_step), one iteration of its loop: the entry under key.  acc holds
\* the dict, the Metric objects, the buckets, the writes made into the buckets
\* (in order, with the key each came from), the collective calls, and whether
\* an exception ended the call.
MetricsStep(acc, key, on_step, train) ==
    IF acc.raised # "" THEN acc
    ELSE PopulateFrom(acc, key,
                      GetCaches([leaves |-> acc.d[key].leaves, objs |-> acc.objs, vals |-> <<>>, syncs |-> <<>>],
                                SetToSeq(DOMAIN acc.d[key].leaves), 1, key, on_step),
                      on_step, train)

\* metrics(on_step): the loop over valid_items()
RECURSIVE MetricsLoop(_, _, _, _)
MetricsLoop(acc, keys, on_step, train) ==
    IF keys = <<>> THEN acc
    ELSE MetricsLoop(MetricsStep(acc, keys[1], on_step, train), Tail(keys), on_step, train)

metrics(d, ord, objs, on_step, train) ==
    MetricsLoop([d |-> d, objs |-> objs, buckets |-> EmptyBuckets, writes |-> <<>>, syncs |-> <<>>, raised |-> ""],
                valid_items(d, ord), on_step, train)

\* reset(metrics, fx), the function applied to every ResultMetric: whether the
\* item is reset.  metrics and fx are optional (None, or Some(value)).
ResetSelects(item, metricsArg, fx) ==
    LET requested_type == IsNone(metricsArg) \/ (Get(metricsArg) # item.is_tensor)
        same_fx == IsNone(fx) \/ (Get(fx) = item.meta.fx)
    IN  requested_type /\ same_fx

\* reset(metrics, fx): apply_to_collection(self, ResultMetric, fn)
RECURSIVE ResetLoop(_, _, _, _)
ResetLoop(acc, todo, metricsArg, fx) ==
    IF todo = <<>> THEN acc
    ELSE LET key == todo[1][1]
             x == todo[1][2]
             item == acc.d[key].leaves[x]
             r == reset_metric(item, acc.objs)
         IN  ResetLoop(IF ResetSelects(item, metricsArg, fx)
                       THEN [d |-> [acc.d EXCEPT ![key].leaves[x] = r.m], objs |-> r.objs]
                       ELSE acc,
                       Tail(todo), metricsArg, fx)

\* every (key, leaf) of the dict, in iteration order
RECURSIVE AllLeaves(_, _)
AllLeaves(d, ord) ==
    IF ord = <<>> THEN <<>>
    ELSE LET names == SetToSeq(DOMAIN d[ord[1]].leaves)
         IN  [i \in DOMAIN names |-> <<ord[1], names[i]>>] \o AllLeaves(d, Tail(ord))

\* a reset that unregisters the keys it selects
reset_Unregister(d, ord, objs, metricsArg, fx) ==
    [d |-> [k \in {k \in DOMAIN d : \A x \in DOMAIN d[k].leaves : ~ResetSelects(d[k].leaves[x], metricsArg, fx)} |-> d[k]],
     objs |-> objs]

\* ResultCollection.reset(metrics, fx)
reset(d, ord, objs, metricsArg, fx) ==
    ResetLoop([d |-> d, objs |-> objs], AllLeaves(d, ord), metricsArg, fx)

-----------------------------------------------------------------------------
(* extract_batch_size.  A batch is [kind, dims, len, items]: a tensor with   *)
(* the shape dims, a string of length len, a dict with the values items, an *)
(* iterable (list, tuple) with the elements items, anything else ("other"), *)
(* or "ref": the batch itself, found inside it (a self-referential batch).  *)

BatchTensor(dims) == [kind |-> "tensor", dims |-> dims, len |-> 0, items |-> <<>>]
BatchStr(len) == [kind |-> "str", dims |-> <<>>, len |-> len, items |-> <<>>]
BatchDict(values) == [kind |-> "dict", dims |-> <<>>, len |-> 0, items |-> values]
BatchIter(elements) == [kind |-> "iter", dims |-> <<>>, len |-> 0, items |-> elements]
BatchOther == [kind |-> "other", dims |-> <<>>, len |-> 0, items |-> <<>>]
BatchRef == [kind |-> "ref", dims |-> <<>>, len |-> 0, items |-> <<>>]

\* a sample taken from the end of the container
FirstSample_Last(batch, root) ==
    IF batch.items = <<>> THEN BatchOther
    ELSE IF batch.items[Len(batch.items)].kind = "ref" THEN root
    ELSE batch.items[Len(batch.items)]

\* next(iter(batch.values()), 1) and next(iter(batch), 1): the first value, or
\* the integer 1; a reference to the batch itself is the batch
FirstSample(batch, root) ==
    IF batch.items = <<>> THEN BatchOther
    ELSE IF batch.items[1].kind = "ref" THEN root
    ELSE batch.items[1]

\* _extract_batch_size(batch): the size, or the exception raised.  depth counts
\* the frames in use; the interpreter raises RecursionError beyond RecursionLimit.
RECURSIVE _extract_batch_size(_, _, _)
_extract_batch_size(batch, root, depth) ==
    IF depth > RecursionLimit THEN [err |-> "RecursionError", size |-> 0]
    ELSE IF batch.kind = "tensor"
    THEN IF batch.dims = <<>> THEN [err |-> "IndexError", size |-> 0]
         ELSE [err |-> "", size |-> batch.dims[1]]
    ELSE IF batch.kind = "str" THEN [err |-> "", size |-> batch.len]
    ELSE IF batch.kind \in {"dict", "iter"}
    THEN _extract_batch_size(FirstSample(batch, root), root, depth + 1)
    ELSE [err |-> "", size |-> 1]

\* an extract_batch_size without the try/except
extract_batch_size_Raises(batch) == _extract_batch_size(batch, batch, 1)

\* extract_batch_size(batch): the size the setter is given, or the exception
\* that leaves the method
extract_batch_size(batch) ==
    LET r == _extract_batch_size(batch, batch, 1)
    IN  IF r.err = "RecursionError" THEN [err |-> "", size |-> 1] ELSE r

-----------------------------------------------------------------------------
(* The state after ResultCollection(training, device), and the calls *)

EmptyRet == [buckets |-> EmptyBuckets, writes |-> <<>>, syncs |-> <<>>, no_grad |-> {}]

\* ResultCollection.__init__, with the Metric objects the caller owns
Construct(trainings, metricIds, pc0) ==
    /\ training \in trainings
    /\ items = <<>>
    /\ order = <<>>
    /\ batch_size = BatchSizeTensor(1)
    /\ minimize = None
    /\ metricObjs = [m \in metricIds |-> DummyMetric]
    /\ call = [op |-> "init"]
    /\ err = ""
    /\ ret = EmptyRet
    /\ hist = <<>>
    /\ pc = pc0

\* one process, one collection
InitWith(trainings, metricIds, pc0) == Construct(trainings, metricIds, pc0) /\ peer = None

\* what a logged value must look like to match the entry of an existing key:
\* the same leaves, each of the kind it was registered with
SameShape(entry, value) ==
    /\ entry.kind = (IF value.dict THEN "collection" ELSE "metric")
    /\ DOMAIN entry.leaves = DOMAIN value.leaves
    /\ \A x \in DOMAIN value.leaves : entry.leaves[x].is_tensor = value.leaves[x].is_tensor

\* the record of one update kept in hist: the leaf as passed and the batch weight
HistRec(leaf, bs, objs) ==
    [t |-> IF leaf.is_tensor THEN leaf.t ELSE Get(objs[leaf.m]._forward_cache), w |-> bs.data[1].n]

\* a log() that ignores the weight it is given
LogBatchSize_Ignored(given, current) == current

\* log(): `if batch_size is not None: self.batch_size = batch_size`; the batch
\* size update_metrics then reads
LogBatchSize(given, current) == IF IsNone(given) THEN current ELSE BatchSizeTensor(Get(given))

\* a refusal that comes after the batch size is set
Refused_WeightSet(d, ord, bs, a) ==
    [raised |-> "MisconfigurationException", d |-> d, ord |-> ord, bs |-> LogBatchSize(a.batch_size, bs),
     syncs |-> <<>>, no_grad |-> {}]

\* log() raises MisconfigurationException, in _Metadata(...) or on
\* `meta != self[key].meta`: nothing was registered, set or updated
Refused(d, ord, bs, a) ==
    [raised |-> "MisconfigurationException", d |-> d, ord |-> ord, bs |-> bs,
     syncs |-> <<>>, no_grad |-> {}]

\* log(), from the comparison of the metadata on: register or refuse, set the
\* batch size, update.  Returns the exception raised, the dict, its order, the
\* batch size, the collective calls and the leaves updated under no_grad.
LogFrom(d, ord, bs, objs, a, key, meta, value) ==
    IF IsNone(meta) \/ (key \in DOMAIN d /\ MetaDiffers(Get(meta), Get(d[key].meta)))
    THEN Refused(d, ord, bs, a)
    ELSE [raised |-> "", ord |-> IF key \in DOMAIN d THEN ord ELSE Append(ord, key),
          bs |-> LogBatchSize(a.batch_size, bs)]
         @@ update_metrics(IF key \in DOMAIN d THEN d ELSE register_key(d, key, Get(meta), value),
                           key, value, LogBatchSize(a.batch_size, bs), objs)

\* log(**a) on a collection holding the dict d (in the order ord), the batch
\* size bs, with the Metric objects objs
log(d, ord, bs, objs, a) ==
    LogFrom(d, ord, bs, objs, a, StorageKey(a.fx, a.name, a.dataloader_idx), LogMeta(a),
            LogDetach(a.value, a.enable_graph))

\* the record of updates after a log() that returned r
HistAfter(a, key, r) ==
    IF r.raised # "" THEN hist
    ELSE [x \in DOMAIN a.value.leaves |->
             Append(IF key \in DOMAIN hist THEN hist[key][x] ELSE <<>>,
                    HistRec(a.value.leaves[x], r.bs, metricObjs))]

\* log() has returned r: the state it leaves
LogReturns(a, key, r) ==
    /\ call' = [op |-> "log", a |-> a, key |-> key]
    /\ err' = r.raised
    /\ items' = r.d
    /\ order' = r.ord
    /\ batch_size' = r.bs
    /\ ret' = [EmptyRet EXCEPT !.syncs = r.syncs, !.no_grad = r.no_grad]
    /\ hist' = IF r.raised # "" THEN hist ELSE Put(hist, key, HistAfter(a, key, r))
    /\ UNCHANGED <<training, minimize, metricObjs>>

\* ResultCollection.log(**a)
LogBody(a) ==
    LET key == StorageKey(a.fx, a.name, a.dataloader_idx)
        isNew == key \notin DOMAIN items
    IN  /\ key # ExtraKey
        /\ \A x \in DOMAIN a.value.leaves :
              ~a.value.leaves[x].is_tensor =>
                  /\ a.value.leaves[x].m \in DOMAIN metricObjs
                  /\ ~IsNone(metricObjs[a.value.leaves[x].m]._forward_cache)
        /\ ~isNew => /\ SameShape(items[key], a.value)
                     /\ \A x \in DOMAIN hist[key] : Len(hist[key][x]) < MaxUpdates
        /\ LogReturns(a, key, log(items, order, batch_size, metricObjs, a))

Log(a) == LogBody(a) /\ UNCHANGED <<pc, peer>>

\* ResultCollection.reset(metrics, fx)
ResetBody(metricsArg, fx) ==
    LET r == reset(items, order, metricObjs, metricsArg, fx)
    IN  /\ call' = [op |-> "reset", metrics |-> metricsArg, fx |-> fx]
        /\ err' = ""
        /\ ret' = EmptyRet
        /\ items' = r.d
        /\ metricObjs' = r.objs
        /\ hist' = [k \in DOMAIN hist |-> [x \in DOMAIN hist[k] |->
                        IF ResetSelects(items[k].leaves[x], metricsArg, fx) THEN <<>> ELSE hist[k][x]]]
        /\ UNCHANGED <<training, order, batch_size, minimize>>

Reset(metricsArg, fx) == ResetBody(metricsArg, fx) /\ UNCHANGED <<pc, peer>>

\* ResultCollection.metrics(on_step)
MetricsBody(on_step) ==
    LET r == metrics(items, order, metricObjs, on_step, training)
    IN  /\ call' = [op |-> "metrics", on_step |-> on_step]
        /\ err' = r.raised
        /\ ret' = IF r.raised # "" THEN [EmptyRet EXCEPT !.syncs = r.syncs]
                  ELSE [EmptyRet EXCEPT !.buckets = r.buckets, !.writes = r.writes, !.syncs = r.syncs]
        /\ items' = r.d
        /\ metricObjs' = r.objs
        /\ UNCHANGED <<training, order, batch_size, minimize, hist>>

Metrics(on_step) == MetricsBody(on_step) /\ UNCHANGED <<pc, peer>>

\* the batch_size setter
SetBatchSize(value) ==
    /\ call' = [op |-> "batch_size", value |-> value]
    /\ err' = ""
    /\ ret' = EmptyRet
    /\ batch_size' = BatchSizeTensor(value)
    /\ UNCHANGED <<training, items, order, minimize, metricObjs, hist, pc, peer>>

\* ResultCollection.extract_batch_size(batch)
ExtractBatchSize(batch) ==
    LET r == extract_batch_size(batch)
    IN  /\ call' = [op |-> "extract_batch_size", batch |-> batch]
        /\ err' = r.err
        /\ ret' = EmptyRet
        /\ batch_size' = IF r.err = "" THEN BatchSizeTensor(r.size) ELSE batch_size
        /\ UNCHANGED <<training, items, order, minimize, metricObjs, hist, pc, peer>>

\* a check that lets every loss through
MinimizeRefused_Never(loss) == FALSE

\* the minimize setter: whether it raises.  The loss is None or Some([is_tensor, t]):
\* a tensor t, or an object that is not a tensor
MinimizeRefused(loss) == ~IsNone(loss) /\ ~Get(loss).is_tensor

\* the minimize setter
SetMinimize(loss) ==
    /\ call' = [op |-> "minimize", loss |-> loss]
    /\ ret' = EmptyRet
    /\ IF MinimizeRefused(loss)
       THEN err' = "ValueError" /\ UNCHANGED minimize
       ELSE err' = "" /\ minimize' = loss
    /\ UNCHANGED <<training, items, order, batch_size, metricObjs, hist, pc, peer>>

\* a check that lets every payload through
ExtraRefused_Never(payload) == FALSE

\* the extra setter, check_fn applied to every tensor of the payload: whether
\* it raises
ExtraRefused(payload) == \E x \in DOMAIN payload : payload[x].grad

\* the extra setter: a payload (a mapping of tensors) with a grad_fn on any
\* tensor is refused, otherwise it is stored in the dict under ExtraKey
SetExtra(payload) ==
    /\ call' = [op |-> "extra", payload |-> payload]
    /\ ret' = EmptyRet
    /\ IF ExtraRefused(payload)
       THEN /\ err' = "MisconfigurationException"
            /\ UNCHANGED <<items, order>>
       ELSE /\ err' = ""
            /\ items' = Put(items, ExtraKey, ExtraEntry(payload))
            /\ order' = IF ExtraKey \in DOMAIN items THEN order ELSE Append(order, ExtraKey)
    /\ UNCHANGED <<training, batch_size, minimize, metricObjs, hist, pc, peer>>

\* the extra getter: self.get('_extra', {})
extra == IF ExtraKey \in DOMAIN items THEN items[ExtraKey].payload ELSE <<>>

\* the caller runs metric(v) on a Metric object it owns
MetricForwardBody(m, v) ==
    /\ metricObjs' = [metricObjs EXCEPT ![m] = DummyForward(@, v)]
    /\ call' = [op |-> "forward", m |-> m, v |-> v]
    /\ err' = ""
    /\ ret' = EmptyRet
    /\ UNCHANGED <<training, items, order, batch_size, minimize, hist>>

MetricForward(m, v) == MetricForwardBody(m, v) /\ UNCHANGED <<pc, peer>>

-----------------------------------------------------------------------------
(* Arguments of log() *)

\* log(fx, name, value) with every other argument at its default
DefaultArgs(fx, name, value) ==
    [fx |-> fx, name |-> name, value |-> value, prog_bar |-> FALSE, logger |-> TRUE,
     on_step |-> FALSE, on_epoch |-> TRUE, reduce_fx |-> CallableFx("torch.mean"),
     enable_graph |-> FALSE, sync_dist |-> FALSE, sync_dist_fn |-> "no_op",
     sync_dist_group |-> None, dataloader_idx |-> None, batch_size |-> None]

\* tensors callers log: scalars (one negative), and a tensor of two elements
\* whose mean is not one of its elements
Vec(a, b) == Tensor(<<RInt(a), RInt(b)>>, "float", FALSE)
LoggedTensors == {FloatScalar(-1), IntScalar(2), Vec(1, 2)}

\* a log() on an existing key that presents the stored metadata, or one on a new key
Accepted(a) ==
    LET key == StorageKey(a.fx, a.name, a.dataloader_idx)
    IN  key \in DOMAIN items => LogMeta(a) = items[key].meta

-----------------------------------------------------------------------------
(* SpecAccum: one tensor key, every reduction and timing, explicit and       *)
(* inherited batch weights, with and without synchronization                 *)

AccumReductions == {CallableFx("torch.mean"), StrFx(<<"s", "u", "m">>), CallableFx("max"), CallableFx("torch.min")}

AccumArgs ==
    {[DefaultArgs(<<"h">>, <<"a">>, Single(TensorLeaf(t))) EXCEPT
         !.on_step = os, !.on_epoch = oe, !.reduce_fx = rf, !.sync_dist = sd,
         !.sync_dist_fn = "all_reduce", !.batch_size = bs] :
     t \in LoggedTensors, os \in BOOLEAN, oe \in {TRUE}, rf \in AccumReductions,
     sd \in BOOLEAN, bs \in {None, Some(2)}}

InitAccum == InitWith({TRUE}, {}, "free")

NextAccum ==
    \/ \E a \in AccumArgs : Accepted(a) /\ Log(a)
    \/ \E on_step \in BOOLEAN : Metrics(on_step)
    \/ Reset(None, None)

SpecAccum == InitAccum /\ [][NextAccum]_vars

-----------------------------------------------------------------------------
(* What the claims speak of, computed from the record of updates alone.     *)
(* A fraction is a pair <<numerator, denominator>>, not reduced.             *)

RECURSIVE IntSum(_)
IntSum(s) == IF s = <<>> THEN 0 ELSE s[1] + IntSum(Tail(s))

\* mean(value) of a logged tensor: the sum of its elements over their number
MeanOf(t) ==
    LET nums == [i \in DOMAIN t.data |-> t.data[i].n]
    IN  <<IntSum(nums), Len(t.data)>>

FracAdd(p, q) == <<p[1] * q[2] + q[1] * p[2], p[2] * q[2]>>
FracLess(p, q) == p[1] * q[2] < q[1] * p[2]

\* the scalar tensor x holds exactly the fraction p
Holds(x, p) == Len(x.data) = 1 /\ x.data[1].d # 0 /\ x.data[1].n * p[2] = p[1] * x.data[1].d

\* sum over the updates h of mean(value_i) * weight_i, and of weight_i
RECURSIVE WeightedSum(_)
WeightedSum(h) ==
    IF h = <<>> THEN <<0, 1>>
    ELSE LET m == MeanOf(h[1].t)
         IN  FracAdd(<<m[1] * h[1].w, m[2]>>, WeightedSum(Tail(h)))

RECURSIVE WeightSum(_)
WeightSum(h) == IF h = <<>> THEN 0 ELSE h[1].w + WeightSum(Tail(h))

\* the largest and the smallest mean(value_i) over the updates h (h not empty)
RECURSIVE MaxMean(_)
MaxMean(h) ==
    IF Len(h) = 1 THEN MeanOf(h[1].t)
    ELSE LET r == MaxMean(Tail(h)) m == MeanOf(h[1].t) IN IF FracLess(m, r) THEN r ELSE m

RECURSIVE MinMean(_)
MinMean(h) ==
    IF Len(h) = 1 THEN MeanOf(h[1].t)
    ELSE LET r == MinMean(Tail(h)) m == MeanOf(h[1].t) IN IF FracLess(r, m) THEN r ELSE m

\* the tensor accumulators that stand alone under a key
TensorKeys == {k \in DOMAIN items : items[k].kind = "metric" /\ items[k].leaves[SelfLeaf].is_tensor}
Acc(k) == items[k].leaves[SelfLeaf]
Updates(k) == hist[k][SelfLeaf]

\* what compute() returns in the current state
ComputeOf(m) == wrapped_compute(m, metricObjs).out

\* the all-reduce stand-in multiplies a sum by the number of processes
SyncFactor(m) ==
    IF m.meta.sync.should /\ m.meta.sync.fn = "all_reduce" /\ m.meta.sync.op = "sum" THEN WorldSize ELSE 1

-----------------------------------------------------------------------------
(* C1: for a tensor key with mean reduction and on_epoch, after N >= 1      *)
(* log() calls since registration or the last reset the running value is    *)
(* the sum of mean(value_i) * weight_i, cumulated_batch_size the sum of the *)
(* weight_i, and compute() their quotient (synchronization of a mean among  *)
(* processes holding the same state leaves all three as they are); the      *)
(* cumulated weight never decreases from one call to the next unless the    *)
(* accumulator is reset.                                                    *)

MeanKeys == {k \in TensorKeys : is_mean_reduction(Acc(k).meta) /\ Acc(k).meta.on_epoch}

C1_State ==
    \A k \in MeanKeys :
        Len(Updates(k)) >= 1 =>
            /\ Holds(Get(Acc(k).value), WeightedSum(Updates(k)))
            /\ Holds(Get(Acc(k).cumulated_batch_size), <<WeightSum(Updates(k)), 1>>)
            /\ LET ws == WeightedSum(Updates(k))
               IN  Holds(ComputeOf(Acc(k)), <<ws[1], ws[2] * WeightSum(Updates(k))>>)

C1_Step ==
    \A k \in MeanKeys :
        (k \in DOMAIN items' /\ ~(call'.op = "reset")) =>
            ~RLess(Get(items'[k].leaves[SelfLeaf].cumulated_batch_size).data[1],
                   Get(Acc(k).cumulated_batch_size).data[1])

C1_MeanAccumulates == [](C1_State) /\ [][C1_Step]_vars

C1_Witness ==
    \E k \in MeanKeys :
        /\ Len(Updates(k)) = 3
        /\ \E i, j \in 1..3 : Updates(k)[i].w # Updates(k)[j].w
        /\ \E i \in 1..3 : Len(Updates(k)[i].t.data) = 2
        /\ ~IsNone(Acc(k)._computed)

-----------------------------------------------------------------------------
(* C2: for a tensor key with max (min) reduction and on_epoch, after N >= 1 *)
(* updates since registration or the last reset compute() is the largest    *)
(* (smallest) mean(value_i) of those updates; the initial or reset state    *)
(* contributes no value of its own.                                         *)

MaxKeys == {k \in TensorKeys : is_max_reduction(Acc(k).meta) /\ Acc(k).meta.on_epoch}
MinKeys == {k \in TensorKeys : is_min_reduction(Acc(k).meta) /\ Acc(k).meta.on_epoch}

C2_RunningExtreme ==
    /\ \A k \in MaxKeys : Len(Updates(k)) >= 1 => Holds(ComputeOf(Acc(k)), MaxMean(Updates(k)))
    /\ \A k \in MinKeys : Len(Updates(k)) >= 1 => Holds(ComputeOf(Acc(k)), MinMean(Updates(k)))

-----------------------------------------------------------------------------
(* C3: for a tensor key with sum reduction and on_epoch, after N updates    *)
(* since registration or the last reset the running value is the sum of     *)
(* mean(value_i) * weight_i, and compute() returns it (as the               *)
(* synchronization function returns it when synchronization is enabled:     *)
(* summed over the processes).                                              *)

SumKeys == {k \in TensorKeys : is_sum_reduction(Acc(k).meta) /\ Acc(k).meta.on_epoch}

-----------------------------------------------------------------------------
(* SpecKeys: one storage key, logged again and again with arguments that    *)
(* differ from the first call's in one argument at a time                   *)

\* a with one argument changed, for every argument that enters the metadata;
\* two keep the storage key and change fx, name and dataloader_idx; the last
\* two change the metadata and pass a batch size
Variations(a) ==
    {a,
     [a EXCEPT !.prog_bar = ~@], [a EXCEPT !.logger = ~@],
     [a EXCEPT !.on_step = ~@], [a EXCEPT !.on_epoch = ~@],
     [a EXCEPT !.enable_graph = ~@], [a EXCEPT !.sync_dist = ~@],
     [a EXCEPT !.sync_dist_fn = "all_reduce"], [a EXCEPT !.sync_dist_group = Some("workers")],
     [a EXCEPT !.reduce_fx = StrFx(<<"A", "v", "g">>)], [a EXCEPT !.reduce_fx = StrFx(<<"s", "u", "m">>)],
     [a EXCEPT !.reduce_fx = CallableFx("torch.sum")], [a EXCEPT !.reduce_fx = CallableFx("sum")],
     [a EXCEPT !.reduce_fx = CallableFx("torch.median")], [a EXCEPT !.reduce_fx = StrFx(<<"m", "a", "d">>)],
     [a EXCEPT !.batch_size = Some(2)],
     [a EXCEPT !.value = Single(TensorLeaf(Vec(1, 2)))],
     [a EXCEPT !.name = <<"a", ".", "0">>, !.dataloader_idx = None],
     [a EXCEPT !.name = <<"a">>, !.dataloader_idx = Some(0)],
     [a EXCEPT !.prog_bar = ~@, !.batch_size = Some(2)],
     [a EXCEPT !.reduce_fx = StrFx(<<"m", "a", "d">>), !.batch_size = Some(2)]}

KeysArgs ==
    Variations([DefaultArgs(<<"h">>, <<"a">>, Single(TensorLeaf(FloatScalar(2)))) EXCEPT
                    !.dataloader_idx = Some(0)])
    \cup Variations([DefaultArgs(<<"h">>, <<"a">>, Single(TensorLeaf(FloatScalar(2)))) EXCEPT
                    !.dataloader_idx = Some(0), !.on_step = TRUE, !.reduce_fx = CallableFx("sum"),
                    !.sync_dist = TRUE])

InitKeys == InitWith({TRUE}, {}, "free")

NextKeys ==
    \/ \E a \in KeysArgs : Log(a)
    \/ Metrics(FALSE)
    \/ Reset(None, None)

SpecKeys == InitKeys /\ [][NextKeys]_vars

-----------------------------------------------------------------------------
(* C4: a key is registered at most once.  A log() on a registered key, with *)
(* arguments from which metadata can be built, raises the configuration     *)
(* error exactly when that metadata differs from the stored one in some     *)
(* field; when it does not, the call succeeds, registers nothing, leaves    *)
(* the stored metadata alone and accumulates its value into the existing    *)
(* accumulator.                                                             *)

\* field by field: the metadata log() builds from a differs from the stored one
ArgsDiffer(a, stored) ==
    \/ MetaFx(a.fx, a.dataloader_idx) # stored.fx
    \/ a.name # stored.name
    \/ a.prog_bar # stored.prog_bar
    \/ a.logger # stored.logger
    \/ a.on_step # stored.on_step
    \/ a.on_epoch # stored.on_epoch
    \/ Get(NormalizeReduceFx(a.reduce_fx)) # stored.reduce_fx
    \/ a.enable_graph # stored.enable_graph
    \/ a.dataloader_idx # stored.dataloader_idx
    \/ a.sync_dist # stored.sync.should
    \/ a.sync_dist_fn # stored.sync.fn
    \/ a.sync_dist_group # stored.sync.group

NoDuplicates(seq) == \A i, j \in DOMAIN seq : seq[i] = seq[j] => i = j

C4_Step ==
    (call'.op = "log" /\ call'.key \in DOMAIN items /\ ~IsNone(NormalizeReduceFx(call'.a.reduce_fx))
        /\ (call' # call \/ items' # items)) =>
        LET key == call'.key
            a == call'.a
            stored == Get(items[key].meta)
            cur == items[key].leaves[SelfLeaf]
            new == items'[key].leaves[SelfLeaf]
        IN  /\ (err' = "MisconfigurationException") <=> ArgsDiffer(a, stored)
            /\ (err' # "MisconfigurationException") =>
                  /\ err' = ""
                  /\ order' = order /\ DOMAIN items' = DOMAIN items
                  /\ items'[key].meta = items[key].meta /\ new.meta = cur.meta
                  /\ new._forward_cache = Some(ToFloat(a.value.leaves[SelfLeaf].t))
                  /\ Len(hist'[key][SelfLeaf]) = Len(hist[key][SelfLeaf]) + 1
                  /\ (cur.meta.on_epoch /\ ~is_max_reduction(cur.meta) /\ ~is_min_reduction(cur.meta)) =>
                        Holds(Get(new.value), WeightedSum(hist'[key][SelfLeaf]))

C4_RegisteredOnce ==
    [](NoDuplicates(order) /\ DOMAIN items = {order[i] : i \in DOMAIN order}) /\ [][C4_Step]_vars

\* a second log() with the same metadata went through, after one that was refused
C4_Witness ==
    /\ call.op = "log" /\ err = ""
    /\ call.a.reduce_fx = StrFx(<<"A", "v", "g">>)
    /\ Len(hist[call.key][SelfLeaf]) >= 2
    /\ items[call.key].leaves[SelfLeaf].meta.reduce_fx = "torch.mean"

-----------------------------------------------------------------------------
(* SpecRead: a tensor key and a key holding a mapping of two tensors, under *)
(* every combination of timing and display flags, in and out of training,   *)
(* read by metrics(True) and metrics(False)                                 *)

PairValue == Mapping([x \in {"p", "q"} |-> TensorLeaf(IF x = "p" THEN FloatScalar(2) ELSE FloatScalar(-1))])

ReadArgs ==
    {[DefaultArgs(<<"h">>, <<"a">>, Single(TensorLeaf(t))) EXCEPT
         !.on_step = os, !.on_epoch = oe, !.logger = lg, !.prog_bar = pb] :
     t \in {FloatScalar(0)}, os \in BOOLEAN, oe \in BOOLEAN, lg \in BOOLEAN, pb \in BOOLEAN}
    \cup
    {[DefaultArgs(<<"h">>, <<"b">>, PairValue) EXCEPT !.on_step = os, !.on_epoch = oe] :
     os \in BOOLEAN, oe \in BOOLEAN}

InitRead == InitWith(BOOLEAN, {}, "free")

\* the key of a is new, or updated fewer than MaxReadUpdates times since its last reset
FewUpdates(a) ==
    LET key == StorageKey(a.fx, a.name, a.dataloader_idx)
    IN  key \in DOMAIN hist => \A x \in DOMAIN hist[key] : Len(hist[key][x]) < MaxReadUpdates

NextRead ==
    \/ \E a \in ReadArgs : Accepted(a) /\ FewUpdates(a) /\ Log(a)
    \/ \E on_step \in BOOLEAN : Metrics(on_step)
    \/ Reset(None, None)

SpecRead == InitRead /\ [][NextRead]_vars

\* the state is the one metrics(on_step) returned in
AfterRead == call.op = "metrics" /\ err = ""

\* the writes metrics() made into bucket `source` for the entry under key k
WritesOf(k, source) == {i \in DOMAIN ret.writes : ret.writes[i].key = k /\ ret.writes[i].source = source}

-----------------------------------------------------------------------------
(* C5: metrics(on_step=True) puts nothing into any bucket for a key whose   *)
(* metadata has on_step=False, metrics(on_step=False) nothing for a key     *)
(* whose metadata has on_epoch=False; every name in a returned bucket was   *)
(* put there for such a key.                                                *)

TimingAllows(k, on_step) ==
    IF on_step THEN Get(items[k].meta).on_step ELSE Get(items[k].meta).on_epoch

C5_ReadRespectsTiming ==
    AfterRead =>
        /\ \A i \in DOMAIN ret.writes : TimingAllows(ret.writes[i].key, call.on_step)
        /\ \A source \in MetricSource : \A n \in DOMAIN ret.buckets[source] :
              \E i \in DOMAIN ret.writes :
                  /\ ret.writes[i].source = source /\ ret.writes[i].name = n
                  /\ TimingAllows(ret.writes[i].key, call.on_step)

\* a read returned something while a key it must leave out is registered and live
C5_Witness ==
    /\ AfterRead
    /\ ret.writes # <<>>
    /\ \E k \in DOMAIN items :
          /\ ~TimingAllows(k, call.on_step)
          /\ \E x \in DOMAIN items[k].leaves :
                ~items[k].leaves[x].has_reset /\ ~IsNone(items[k].leaves[x]._forward_cache)

-----------------------------------------------------------------------------
(* C10: for every entry that yields a value in a metrics(on_step) read: in  *)
(* training context it is put into CALLBACK under its plain name and under  *)
(* its forked name, with the same value; outside training context it is put *)
(* into CALLBACK exactly when the read is an epoch read and its metadata    *)
(* has on_epoch, so a step read outside training returns an empty CALLBACK. *)

\* the entry under k yields a value in a read: it is a valid item and some
\* leaf has a cached value the metadata lets the read expose
Yields(k, on_step) ==
    /\ \E i \in DOMAIN valid_items(items, order) : valid_items(items, order)[i] = k
    /\ \E x \in DOMAIN items[k].leaves :
          \/ on_step /\ Get(items[k].meta).on_step /\ ~IsNone(items[k].leaves[x]._forward_cache)
          \/ ~on_step /\ Get(items[k].meta).on_epoch

-----------------------------------------------------------------------------
(* SpecLoop: the loop of test_result_metric_integration.  Three Metric       *)
(* objects are fed the value of the step, logged under h.a (step and epoch), *)
(* h.b (epoch only) and h.c (step only) and read; an epoch of one or more    *)
(* steps ends with an epoch read and reset().  pc holds the position in the  *)
(* loop, the values fed in the current epoch and the epochs completed.       *)

LoopValues == {0, 1, 2}

LoopArgs(name, m, on_step, on_epoch) ==
    [DefaultArgs(<<"h">>, name, Single(MetricLeaf(m))) EXCEPT !.on_step = on_step, !.on_epoch = on_epoch]

InitLoop ==
    InitWith({TRUE}, {"metric_a", "metric_b", "metric_c"}, [at |-> "metric_a", vals |-> <<>>, epoch |-> 0])

Goto(at) == pc' = [pc EXCEPT !.at = at] /\ UNCHANGED peer

\* metric_a(i), the first statement of a step
LoopMetricA ==
    \E i \in LoopValues :
        /\ pc.at = "metric_a" /\ pc.epoch < MaxEpochs /\ Len(pc.vals) < MaxSteps
        /\ MetricForwardBody("metric_a", IntScalar(i))
        /\ pc' = [pc EXCEPT !.at = "metric_b", !.vals = Append(@, i)]
        /\ UNCHANGED peer

LoopMetricB ==
    pc.at = "metric_b" /\ MetricForwardBody("metric_b", IntScalar(pc.vals[Len(pc.vals)])) /\ Goto("metric_c")

LoopMetricC ==
    pc.at = "metric_c" /\ MetricForwardBody("metric_c", IntScalar(pc.vals[Len(pc.vals)])) /\ Goto("log_a")

LoopLogA == pc.at = "log_a" /\ LogBody(LoopArgs(<<"a">>, "metric_a", TRUE, TRUE)) /\ Goto("log_b")

LoopLogB == pc.at = "log_b" /\ LogBody(LoopArgs(<<"b">>, "metric_b", FALSE, TRUE)) /\ Goto("log_c")

LoopLogC == pc.at = "log_c" /\ LogBody(LoopArgs(<<"c">>, "metric_c", TRUE, FALSE)) /\ Goto("batch_log")

\* batch_log = result.metrics(True)
LoopBatchLog == pc.at = "batch_log" /\ MetricsBody(TRUE) /\ Goto("metric_a")

\* epoch_log = result.metrics(False), after the last step of the epoch
LoopEpochLog ==
    /\ pc.at = "metric_a" /\ pc.epoch < MaxEpochs /\ pc.vals # <<>>
    /\ MetricsBody(FALSE)
    /\ Goto("reset")

\* result.reset(), and on to the next epoch
LoopReset ==
    /\ pc.at = "reset"
    /\ ResetBody(None, None)
    /\ pc' = [at |-> "metric_a", vals |-> <<>>, epoch |-> pc.epoch + 1]
    /\ UNCHANGED peer

NextLoop ==
    \/ LoopMetricA \/ LoopMetricB \/ LoopMetricC
    \/ LoopLogA \/ LoopLogB \/ LoopLogC
    \/ LoopBatchLog \/ LoopEpochLog \/ LoopReset

SpecLoop == InitLoop /\ [][NextLoop]_vars

\* bucket b holds exactly the names of `expected`, each a single value equal to
\* the integer `expected` gives it
BucketIs(b, expected) ==
    /\ DOMAIN b = DOMAIN expected
    /\ \A n \in DOMAIN expected :
          /\ ~b[n].dict
          /\ DOMAIN b[n].leaves = {SelfLeaf}
          /\ Holds(b[n].leaves[SelfLeaf], <<expected[n], 1>>)

-----------------------------------------------------------------------------
(* C6: in the loop over delegated metrics a (step and epoch), b (epoch only) *)
(* and c (step only): the step read returns LOG = {a_step: v, c: v} for the  *)
(* value v of the latest step; the epoch read returns LOG = {b: s, a_epoch:  *)
(* s} for the sum s of the values of the current epoch alone; after reset()  *)
(* every delegate's state is its default and every accumulator has           *)
(* has_reset set.                                                            *)

C6_LoopReads ==
    /\ (call.op = "metrics" /\ call.on_step) =>
          /\ err = ""
          /\ BucketIs(ret.buckets[LOG],
                      [n \in {<<"a", "_step">>, <<"c">>} |-> pc.vals[Len(pc.vals)]])
    /\ (call.op = "metrics" /\ ~call.on_step) =>
          /\ err = ""
          /\ BucketIs(ret.buckets[LOG],
                      [n \in {<<"b">>, <<"a", "_epoch">>} |-> IntSum(pc.vals)])
    /\ call.op = "reset" =>
          /\ \A m \in DOMAIN metricObjs : metricObjs[m].x = DummyMetric.x
          /\ \A k \in DOMAIN items : \A x \in DOMAIN items[k].leaves : items[k].leaves[x].has_reset

\* the epoch read of a later epoch, after two steps with a non-zero total
C6_Witness ==
    /\ call.op = "metrics" /\ ~call.on_step
    /\ pc.epoch >= 1 /\ Len(pc.vals) >= 2 /\ IntSum(pc.vals) > 0
    /\ <<"a", "_epoch">> \in DOMAIN ret.buckets[LOG]

-----------------------------------------------------------------------------
(* Spec: the life of a collection holding a tensor key logged with a loader *)
(* index and a key holding a mapping of a tensor and a Metric object, with  *)
(* filtered resets, reads and extras                                        *)

LifeArgs ==
    {[DefaultArgs(<<"h">>, <<"a">>, Single(TensorLeaf(FloatScalar(2)))) EXCEPT
         !.dataloader_idx = Some(0), !.reduce_fx = StrFx(<<"s", "u", "m">>)],
     DefaultArgs(<<"g">>, <<"d">>,
                 Mapping([x \in {"p", "q"} |-> IF x = "p" THEN TensorLeaf(FloatScalar(2)) ELSE MetricLeaf("mB")]))}

LifeSites == {None, Some(<<"h">>), Some(<<"g">>)}

LifePayloads ==
    {[x \in {"hiddens"} |-> Tensor(<<RInt(1)>>, "float", g)] : g \in BOOLEAN}
    \cup {[x \in {"hiddens", "loss"} |-> Tensor(<<RInt(1)>>, "float", x = "loss")]}

Init == InitWith({TRUE}, {"mB"}, "free")

Next ==
    \/ \E a \in LifeArgs : FewUpdates(a) /\ Log(a)
    \/ \E metricsArg \in {None, Some(TRUE), Some(FALSE)}, fx \in LifeSites : Reset(metricsArg, fx)
    \/ \E on_step \in BOOLEAN : Metrics(on_step)
    \/ \E payload \in LifePayloads : SetExtra(payload)
    \/ metricObjs["mB"].x.data[1].n < MaxForwards /\ MetricForward("mB", IntScalar(1))

Spec == Init /\ [][Next]_vars

\* whether the accumulator is in a reset state: every ResultMetric of the
\* entry has been reset and not updated since
InResetState(entry) == \A x \in DOMAIN entry.leaves : entry.leaves[x].has_reset

\* the elements of a sequence
Range(seq) == {seq[i] : i \in DOMAIN seq}

-----------------------------------------------------------------------------
(* C7: valid_items() yields, once each, exactly the registered keys other   *)
(* than the extras key whose accumulator is not in a reset state, a group   *)
(* being in a reset state when all its leaves are; the key of a log() that  *)
(* has just succeeded is yielded.                                           *)

C7_ValidItems ==
    LET yielded == valid_items(items, order)
    IN  /\ Range(yielded) = {k \in DOMAIN items \ {ExtraKey} : ~InResetState(items[k])}
        /\ NoDuplicates(yielded)
        /\ (call.op = "log" /\ err = "") => call.key \in Range(yielded)

-----------------------------------------------------------------------------
(* C8: reset(metrics, site) resets exactly the accumulators, leaves of      *)
(* groups included, whose kind matches `metrics` and whose call-site, the   *)
(* fx passed to log(), matches `site`: a matching tensor accumulator is     *)
(* back in its initial state with has_reset set, a matching delegate is     *)
(* back at its default, and every other accumulator and delegate is         *)
(* unchanged.                                                               *)

\* the fx that was passed to log() for an accumulator with this metadata
CallSite(meta) ==
    IF IsNone(meta.dataloader_idx) THEN meta.fx ELSE SubSeq(meta.fx, 1, Len(meta.fx) - 2)

Matches(item, metricsArg, site) ==
    /\ IsNone(metricsArg) \/ (Get(metricsArg) = ~item.is_tensor)
    /\ IsNone(site) \/ (Get(site) = CallSite(item.meta))

C8_Step ==
    call'.op = "reset" =>
        \A k \in DOMAIN items : \A x \in DOMAIN items[k].leaves :
            LET old == items[k].leaves[x]
                new == items'[k].leaves[x]
            IN  IF Matches(old, call'.metrics, call'.fx)
                THEN /\ new.has_reset
                     /\ old.is_tensor => new = [ResultMetric(old.meta, TRUE) EXCEPT !.has_reset = TRUE]
                     /\ ~old.is_tensor => metricObjs'[Get(old.delegate)].x = DummyMetric.x
                ELSE /\ new = old
                     /\ ~old.is_tensor => metricObjs'[Get(old.delegate)] = metricObjs[Get(old.delegate)]

C8_ResetSelection == [][C8_Step]_vars

-----------------------------------------------------------------------------
(* C9: has_reset of every accumulator is true exactly when it has not been  *)
(* updated since its last reset(); a tensor accumulator that has just been  *)
(* reset computes 0 under sum reduction and computes, without raising, a    *)
(* NaN (0 / 0) under mean reduction.                                        *)

C9_ResetState ==
    \A k \in DOMAIN items : \A x \in DOMAIN items[k].leaves :
        LET m == items[k].leaves[x]
        IN  /\ m.has_reset <=> hist[k][x] = <<>>
            /\ (m.is_tensor /\ m.has_reset /\ is_sum_reduction(m.meta)) => Holds(ComputeOf(m), <<0, 1>>)
            /\ (m.is_tensor /\ m.has_reset /\ is_mean_reduction(m.meta)) =>
                  /\ Len(ComputeOf(m).data) = 1
                  /\ RIsNaN(ComputeOf(m).data[1])

\* reset(metrics=False) has just reset a sum and a mean tensor accumulator
\* and left alone a delegated one that was updated
C9_Witness ==
    /\ call.op = "reset" /\ call.metrics = Some(FALSE)
    /\ \E k \in DOMAIN items : \E x \in DOMAIN items[k].leaves :
          /\ items[k].leaves[x].is_tensor /\ items[k].leaves[x].has_reset
          /\ is_sum_reduction(items[k].leaves[x].meta)
    /\ \E k \in DOMAIN items : \E x \in DOMAIN items[k].leaves :
          /\ items[k].leaves[x].is_tensor /\ items[k].leaves[x].has_reset
          /\ is_mean_reduction(items[k].leaves[x].meta)
    /\ \E k \in DOMAIN items : \E x \in DOMAIN items[k].leaves :
          ~items[k].leaves[x].is_tensor /\ ~items[k].leaves[x].has_reset /\ hist[k][x] # <<>>

-----------------------------------------------------------------------------
(* C11: for every entry that yields a value in a metrics(on_step) read, its *)
(* forked name is a key of LOG exactly when its metadata has logger set and *)
(* a key of PBAR exactly when it has prog_bar set; the plain name of a      *)
(* forked entry is a key of neither.                                        *)

\* the suffix a forked entry gets in a read
ForkSuffix(meta, on_step) ==
    IF meta.on_step /\ meta.on_epoch THEN <<IF on_step THEN "_step" ELSE "_epoch">> ELSE <<>>

\* the suffix an entry logged with a loader index gets
LoaderSuffix(meta) ==
    IF IsNone(meta.dataloader_idx) THEN <<>> ELSE <<"/dataloader_idx_", IntStr(Get(meta.dataloader_idx))>>

PlainName(meta) == meta.name \o LoaderSuffix(meta)
ForkedName(meta, on_step) == meta.name \o ForkSuffix(meta, on_step) \o LoaderSuffix(meta)

C11_LogPbarBuckets ==
    AfterRead =>
        \A k \in DOMAIN items \ {ExtraKey} :
            Yields(k, call.on_step) =>
                LET meta == Get(items[k].meta)
                    fname == ForkedName(meta, call.on_step)
                    name == PlainName(meta)
                IN  /\ fname \in DOMAIN ret.buckets[LOG] <=> meta.logger
                    /\ fname \in DOMAIN ret.buckets[PBAR] <=> meta.prog_bar
                    /\ name # fname => /\ name \notin DOMAIN ret.buckets[LOG]
                                       /\ name \notin DOMAIN ret.buckets[PBAR]

\* a forked entry shown in the progress bar but not in the logger was read
C11_Witness ==
    /\ AfterRead
    /\ \E k \in DOMAIN items \ {ExtraKey} :
          /\ Yields(k, call.on_step)
          /\ forked(Get(items[k].meta))
          /\ Get(items[k].meta).prog_bar /\ ~Get(items[k].meta).logger
          /\ ForkedName(Get(items[k].meta), call.on_step) \in DOMAIN ret.buckets[PBAR]
          /\ ret.buckets[LOG] # <<>>

-----------------------------------------------------------------------------
(* C12: forked_name(on_step) is name + "_step" for a step read and name +   *)
(* "_epoch" for an epoch read when the metadata has on_step and on_epoch,   *)
(* and the bare name otherwise; a forked key is written into the buckets    *)
(* under different names by a step read and by an epoch read.               *)

C12_ForkedName ==
    /\ \A k \in DOMAIN items \ {ExtraKey} :
          LET meta == Get(items[k].meta)
          IN  /\ (meta.on_step /\ meta.on_epoch) =>
                    /\ forked_name(meta, TRUE) = meta.name \o <<"_step">>
                    /\ forked_name(meta, FALSE) = meta.name \o <<"_epoch">>
                    /\ forked_name(meta, TRUE) # forked_name(meta, FALSE)
              /\ ~(meta.on_step /\ meta.on_epoch) =>
                    /\ forked_name(meta, TRUE) = meta.name
                    /\ forked_name(meta, FALSE) = meta.name
    /\ AfterRead =>
          \A i \in DOMAIN ret.writes :
              LET meta == Get(items[ret.writes[i].key].meta)
              IN  ret.writes[i].source \in {LOG, PBAR} =>
                      ret.writes[i].name = meta.name \o ForkSuffix(meta, call.on_step)

\* an epoch read wrote a forked key under name_epoch and another key under its bare name
C12_Witness ==
    /\ AfterRead /\ ~call.on_step
    /\ \E i, j \in DOMAIN ret.writes :
          /\ ret.writes[i].source = LOG /\ ret.writes[j].source = LOG
          /\ forked(Get(items[ret.writes[i].key].meta))
          /\ ret.writes[i].name = Get(items[ret.writes[i].key].meta).name \o <<"_epoch">>
          /\ ~forked(Get(items[ret.writes[j].key].meta))
          /\ ret.writes[j].name = Get(items[ret.writes[j].key].meta).name

-----------------------------------------------------------------------------
(* SpecLoaders: one (fx, name) logged without a loader index and with the   *)
(* loader indices 0 and 1, forked or epoch-only, read and reset             *)

LoaderArgs ==
    {[DefaultArgs(<<"h">>, <<"a">>, Single(TensorLeaf(FloatScalar(3)))) EXCEPT
         !.on_step = os, !.prog_bar = TRUE, !.dataloader_idx = idx] :
     os \in BOOLEAN, idx \in {None, Some(0), Some(1)}}

InitLoaders == InitWith({TRUE}, {}, "free")

NextLoaders ==
    \/ \E a \in LoaderArgs : Accepted(a) /\ FewUpdates(a) /\ Log(a)
    \/ \E on_step \in BOOLEAN : Metrics(on_step)
    \/ Reset(None, None)

SpecLoaders == InitLoaders /\ [][NextLoaders]_vars

-----------------------------------------------------------------------------
(* C13: every name a key registered with loader index k is given in LOG,    *)
(* PBAR and CALLBACK is its plain or forked name followed by                *)
(* "/dataloader_idx_k", the suffix coming after any _step/_epoch suffix; a  *)
(* key registered without a loader index carries no such suffix; a log()    *)
(* with a loader index lands in an entry of its own and leaves the entries  *)
(* of the other loader indices as they were.                                *)

\* seq ends with the tokens of tail
EndsWith(seq, tail) ==
    Len(seq) >= Len(tail) /\ SubSeq(seq, Len(seq) - Len(tail) + 1, Len(seq)) = tail

C13_State ==
    AfterRead =>
        /\ \A i \in DOMAIN ret.writes :
              LET meta == Get(items[ret.writes[i].key].meta)
                  n == ret.writes[i].name
              IN  /\ ~IsNone(meta.dataloader_idx) =>
                        /\ EndsWith(n, <<"/dataloader_idx_", IntStr(Get(meta.dataloader_idx))>>)
                        /\ n \in {PlainName(meta), ForkedName(meta, call.on_step)}
                  /\ IsNone(meta.dataloader_idx) =>
                        \A j \in DOMAIN n : n[j] # "/dataloader_idx_"
        /\ \A source \in MetricSource : \A n \in DOMAIN ret.buckets[source] :
              \E i \in DOMAIN ret.writes : ret.writes[i].source = source /\ ret.writes[i].name = n

C13_Step ==
    (call'.op = "log" /\ err' = "") =>
        /\ call'.key \in DOMAIN items'
        /\ Get(items'[call'.key].meta).dataloader_idx = call'.a.dataloader_idx
        /\ \A k \in DOMAIN items : k # call'.key => items'[k] = items[k] /\ hist'[k] = hist[k]
        /\ \A k \in DOMAIN items' \ {call'.key} :
              Get(items'[k].meta).dataloader_idx # call'.a.dataloader_idx

C13_LoaderSuffix == [](C13_State) /\ [][C13_Step]_vars

\* a step read exposed the forked key of loader 1 next to those of loader 0 and of no loader
C13_Witness ==
    /\ AfterRead /\ call.on_step
    /\ <<"a", "_step", "/dataloader_idx_", "1">> \in DOMAIN ret.buckets[LOG]
    /\ <<"a", "/dataloader_idx_", "1">> \in DOMAIN ret.buckets[CALLBACK]
    /\ <<"a", "_step", "/dataloader_idx_", "0">> \in DOMAIN ret.buckets[PBAR]
    /\ <<"a", "_step">> \in DOMAIN ret.buckets[LOG]
    /\ Cardinality(DOMAIN items) = 3

-----------------------------------------------------------------------------
(* SpecWeights: two mean-reduced tensor keys, one logged with and without   *)
(* an explicit batch size, the other always without; the batch_size setter  *)
(* and extract_batch_size in between                                        *)

WeightArgs ==
    {[DefaultArgs(<<"h">>, <<"a">>, Single(TensorLeaf(FloatScalar(3)))) EXCEPT !.batch_size = bs] :
     bs \in {None, Some(2)}}
    \cup {DefaultArgs(<<"h">>, <<"b">>, Single(TensorLeaf(FloatScalar(3))))}

WeightBatches == {BatchTensor(<<7, 2>>), BatchIter(<<BatchRef>>)}

InitWeights == InitWith({TRUE}, {}, "free")

NextWeights ==
    \/ \E a \in WeightArgs : FewUpdates(a) /\ Log(a)
    \/ SetBatchSize(7)
    \/ \E batch \in WeightBatches : ExtractBatchSize(batch)

SpecWeights == InitWeights /\ [][NextWeights]_vars

-----------------------------------------------------------------------------
(* C14: the current batch weight is 1 for a new collection; a log() with an *)
(* explicit weight accumulates with that weight and leaves it as the        *)
(* current batch weight; a log() without a weight accumulates with the      *)
(* current batch weight and does not change it; only log() with a weight,   *)
(* the batch_size setter and extract_batch_size change it.                  *)

\* the cumulated weight of the mean accumulator under key k in dict d (0 when absent)
CumulatedIn(d, k) ==
    IF k \in DOMAIN d THEN Get(d[k].leaves[SelfLeaf].cumulated_batch_size).data[1] ELSE RInt(0)

C14_State == call.op = "init" => batch_size.data = <<RInt(1)>>

C14_Step ==
    /\ (call'.op = "log" /\ err' = "") =>
          LET w == IF IsNone(call'.a.batch_size) THEN batch_size.data[1].n
                   ELSE Get(call'.a.batch_size)
          IN  /\ batch_size'.data = <<RInt(w)>>
              /\ CumulatedIn(items', call'.key) = RAdd(CumulatedIn(items, call'.key), RInt(w))
              /\ IsNone(call'.a.batch_size) => batch_size' = batch_size
    /\ call'.op = "batch_size" => batch_size'.data = <<RInt(call'.value)>>
    /\ call'.op \notin {"log", "batch_size", "extract_batch_size"} => batch_size' = batch_size

C14_BatchWeight == [](C14_State) /\ [][C14_Step]_vars

\* a log() without a weight on one key used the weight an earlier log() on the
\* other key had passed
C14_Witness ==
    /\ call.op = "log" /\ err = ""
    /\ call.key = <<"h", ".", "b">> /\ IsNone(call.a.batch_size)
    /\ batch_size.data = <<RInt(2)>>
    /\ Len(hist[call.key][SelfLeaf]) = 2
    /\ CumulatedIn(items, call.key) = RInt(9)

-----------------------------------------------------------------------------
(* SpecReduce: one key logged with reduction selectors given as strings in  *)
(* several spellings and as callables, accepted and refused                 *)

ReduceSelectors ==
    {StrFx(v) : v \in {<<"a", "v", "g">>, <<"A", "v", "g">>, <<"M", "E", "A", "N">>, <<"m", "e", "a", "n">>,
                       <<"M", "i", "n">>, <<"m", "a", "x">>, <<"S", "U", "M">>,
                       <<"m", "a", "d">>, <<"m", "e", "a", "n", "s">>, <<>>}}
    \cup {CallableFx(f) : f \in Callables}

ReduceArgs ==
    {[DefaultArgs(<<"h">>, <<"a">>, Single(TensorLeaf(FloatScalar(2)))) EXCEPT !.reduce_fx = rf] :
     rf \in ReduceSelectors}

InitReduce == InitWith({TRUE}, {}, "free")

NextReduce ==
    \/ \E a \in ReduceArgs : Log(a)
    \/ Metrics(FALSE)
    \/ Reset(None, None)

SpecReduce == InitReduce /\ [][NextReduce]_vars

-----------------------------------------------------------------------------
(* C15: a reduction selector given as a string is read case-insensitively   *)
(* as min, max, mean or sum, "avg" meaning mean; any other string and any   *)
(* callable other than the mean, sum, max and min functions makes log()     *)
(* raise the configuration error and change nothing; metadata built from    *)
(* "avg", "MEAN", "mean" and the mean callable are equal, so each of them   *)
(* is accepted on a key registered with any of them.                        *)

\* the reduction a selector stands for, "error" when it stands for none
SelectorKind(reduce_fx) ==
    IF reduce_fx.str
    THEN CASE reduce_fx.v \in {<<"a", "v", "g">>, <<"A", "v", "g">>, <<"M", "E", "A", "N">>, <<"m", "e", "a", "n">>} -> "mean"
           [] reduce_fx.v = <<"M", "i", "n">> -> "min"
           [] reduce_fx.v = <<"m", "a", "x">> -> "max"
           [] reduce_fx.v = <<"S", "U", "M">> -> "sum"
           [] OTHER -> "error"
    ELSE CASE reduce_fx.v[1] = "torch.mean" -> "mean"
           [] reduce_fx.v[1] \in {"torch.sum", "sum"} -> "sum"
           [] reduce_fx.v[1] \in {"torch.max", "max"} -> "max"
           [] reduce_fx.v[1] \in {"torch.min", "min"} -> "min"
           [] OTHER -> "error"

\* the reduction the metadata holds
MetaKind(meta) ==
    CASE is_mean_reduction(meta) -> "mean"
      [] is_sum_reduction(meta) -> "sum"
      [] is_max_reduction(meta) -> "max"
      [] is_min_reduction(meta) -> "min"
      [] OTHER -> "error"

C15_State ==
    \A a, b \in ReduceArgs :
        (SelectorKind(a.reduce_fx) = "mean" /\ SelectorKind(b.reduce_fx) = "mean") =>
            ~IsNone(LogMeta(a)) /\ LogMeta(a) = LogMeta(b)

C15_Step ==
    call'.op = "log" =>
        LET kind == SelectorKind(call'.a.reduce_fx)
            key == call'.key
        IN  /\ kind = "error" =>
                  err' = "MisconfigurationException" /\ items' = items /\ order' = order
            /\ (kind # "error" /\ key \notin DOMAIN items) =>
                  /\ err' = ""
                  /\ MetaKind(Get(items'[key].meta)) = kind
                  /\ Get(items'[key].meta).sync.op = kind
            /\ (kind = "mean" /\ key \in DOMAIN items /\ MetaKind(Get(items[key].meta)) = "mean"
                    /\ Len(hist[key][SelfLeaf]) < MaxUpdates) =>
                  /\ err' = ""
                  /\ Len(hist'[key][SelfLeaf]) = Len(hist[key][SelfLeaf]) + 1
            /\ (kind # "error" /\ key \in DOMAIN items /\ MetaKind(Get(items[key].meta)) # kind) =>
                  err' = "MisconfigurationException" /\ items' = items

C15_ReduceSelector == [](C15_State) /\ [][C15_Step]_vars

\* "MEAN" was accepted on a key that holds the mean reduction and was updated before
C15_Witness ==
    /\ call.op = "log" /\ err = ""
    /\ call.a.reduce_fx = StrFx(<<"M", "E", "A", "N">>)
    /\ Len(hist[call.key][SelfLeaf]) >= 2
    /\ Get(items[call.key].meta).reduce_fx = "torch.mean"

-----------------------------------------------------------------------------
(* SpecBatch: extract_batch_size on tensors, strings, dicts and iterables,  *)
(* nested up to and beyond the recursion limit, and on batches that contain *)
(* themselves; the batch_size setter and the minimize setter in between     *)

BatchLeaves ==
    {BatchTensor(<<7>>), BatchTensor(<<2, 3>>), BatchTensor(<<0>>), BatchTensor(<<>>),
     BatchStr(3), BatchStr(0), BatchOther}

\* dicts and iterables that are empty, or start with one of `firsts`
Containers(firsts) ==
    {BatchDict(its) : its \in {<<>>} \cup {<<x>> : x \in firsts} \cup {<<x, BatchTensor(<<7>>)>> : x \in firsts}}
    \cup
    {BatchIter(its) : its \in {<<>>} \cup {<<x>> : x \in firsts} \cup {<<x, BatchStr(3)>> : x \in firsts}}

\* leaf inside d nested lists
RECURSIVE NestChain(_, _)
NestChain(d, leaf) == IF d = 0 THEN leaf ELSE BatchIter(<<NestChain(d - 1, leaf)>>)

Batches ==
    BatchLeaves
    \cup Containers(BatchLeaves \cup {BatchRef})
    \cup {BatchIter(<<c>>) : c \in Containers(BatchLeaves \cup {BatchRef})}
    \cup {NestChain(d, BatchTensor(<<7>>)) : d \in 1..(RecursionLimit + 1)}

InitBatch == InitWith({TRUE}, {}, "free")

\* what the minimize setter is given: nothing, a tensor without and with a
\* graph, a float and a string
Losses ==
    {None,
     Some([is_tensor |-> TRUE, t |-> Tensor(<<RInt(2)>>, "float", FALSE)]),
     Some([is_tensor |-> TRUE, t |-> Tensor(<<RInt(2)>>, "float", TRUE)]),
     Some([is_tensor |-> FALSE, t |-> Tensor(<<RInt(2)>>, "number", FALSE)]),
     Some([is_tensor |-> FALSE, t |-> Tensor(<<>>, "str", FALSE)])}

NextBatch ==
    \/ \E batch \in Batches : ExtractBatchSize(batch)
    \/ SetBatchSize(4)
    \/ \E loss \in Losses : SetMinimize(loss)

SpecBatch == InitBatch /\ [][NextBatch]_vars

\* the frames the estimation of a batch needs, following first elements;
\* more than RecursionLimit when it meets the batch itself
RECURSIVE Frames(_)
Frames(batch) ==
    IF batch.kind = "ref" THEN RecursionLimit + 1
    ELSE IF batch.kind \in {"dict", "iter"}
    THEN 1 + (IF batch.items = <<>> THEN 1 ELSE Frames(batch.items[1]))
    ELSE 1

\* the estimation meets a tensor without dimensions
RECURSIVE MeetsScalar(_)
MeetsScalar(batch) ==
    IF batch.kind = "tensor" THEN batch.dims = <<>>
    ELSE IF batch.kind \in {"dict", "iter"} /\ batch.items # <<>> THEN MeetsScalar(batch.items[1])
    ELSE FALSE

\* the estimate defined on the structure of a batch
RECURSIVE Estimate(_)
Estimate(batch) ==
    CASE batch.kind = "tensor" -> batch.dims[1]
      [] batch.kind = "str" -> batch.len
      [] batch.kind \in {"dict", "iter"} -> IF batch.items = <<>> THEN 1 ELSE Estimate(batch.items[1])
      [] OTHER -> 1

-----------------------------------------------------------------------------
(* C16: extract_batch_size(batch), for a batch whose estimation bottoms out *)
(* within the recursion limit, sets the current batch weight to the         *)
(* estimate: the leading dimension of a tensor, the length of a string, the *)
(* estimate of the first value of a dict and of the first element of any    *)
(* other iterable, 1 for an empty dict or iterable and for anything else.   *)

C16_Step ==
    (call'.op = "extract_batch_size" /\ Frames(call'.batch) <= RecursionLimit
        /\ ~MeetsScalar(call'.batch)) =>
        /\ err' = ""
        /\ batch_size' = IntScalar(Estimate(call'.batch))

-----------------------------------------------------------------------------
(* C17: when the estimation does not bottom out, because the batch contains *)
(* itself or is nested deeper than the recursion limit, extract_batch_size  *)
(* returns without raising and the current batch weight is 1.               *)

C17_Step ==
    (call'.op = "extract_batch_size" /\ Frames(call'.batch) > RecursionLimit) =>
        /\ err' = ""
        /\ batch_size' = IntScalar(1)

C17_RecursionFallback == [][C17_Step]_vars

\* a list that contains itself was given and the batch weight is 1
C17_Witness ==
    /\ call.op = "extract_batch_size" /\ err = ""
    /\ call.batch = BatchIter(<<BatchRef>>)
    /\ batch_size = IntScalar(1)

-----------------------------------------------------------------------------
(* C18: setting extra with a payload in which some tensor carries a grad_fn *)
(* raises the configuration error and leaves the stored extras as they      *)
(* were; any other payload is stored and returned by the getter; the getter *)
(* returns an empty mapping when extras were never set; the extras are      *)
(* never yielded by valid_items() nor written into a bucket by metrics().   *)

C18_State ==
    /\ ExtraKey \notin DOMAIN items => extra = <<>>
    /\ ExtraKey \notin Range(valid_items(items, order))
    /\ AfterRead => \A i \in DOMAIN ret.writes : ret.writes[i].key # ExtraKey

C18_Step ==
    call'.op = "extra" =>
        /\ IF \E x \in DOMAIN call'.payload : call'.payload[x].grad
           THEN err' = "MisconfigurationException" /\ extra' = extra /\ items' = items
           ELSE err' = "" /\ extra' = call'.payload
        /\ valid_items(items', order') = valid_items(items, order)

C18_Extra == [](C18_State) /\ [][C18_Step]_vars

\* a payload with a grad_fn in its second tensor was refused after extras had
\* been stored, next to a live key
C18_Witness ==
    /\ call.op = "extra" /\ err = "MisconfigurationException"
    /\ DOMAIN call.payload = {"hiddens", "loss"}
    /\ extra # <<>>
    /\ valid_items(items, order) # <<>>

-----------------------------------------------------------------------------
(* C19: setting minimize to something that is neither None nor a tensor     *)
(* raises ValueError and leaves the stored value as it was; setting it to a *)
(* tensor or to None stores exactly that value, which the getter returns.   *)

C19_Step ==
    call'.op = "minimize" =>
        IF ~IsNone(call'.loss) /\ ~Get(call'.loss).is_tensor
        THEN err' = "ValueError" /\ minimize' = minimize
        ELSE err' = "" /\ minimize' = call'.loss

C19_Minimize == [][C19_Step]_vars

\* a float was refused while a tensor with a graph was stored
C19_Witness ==
    /\ call.op = "minimize" /\ err = "ValueError"
    /\ ~IsNone(minimize) /\ Get(minimize).is_tensor /\ Get(minimize).t.grad

-----------------------------------------------------------------------------
(* C20: log() never invokes the injected synchronization function, whatever *)
(* the timing flags of the key and whether or not synchronization is        *)
(* enabled; the function is invoked only by compute() of a tensor           *)
(* accumulator, which only an epoch read runs.                              *)

C20_LocalAccumulation ==
    /\ call.op = "log" => ret.syncs = <<>>
    /\ call.op = "metrics" =>
          \A i \in DOMAIN ret.syncs :
              /\ ~call.on_step
              /\ items[ret.syncs[i].key].leaves[ret.syncs[i].leaf].is_tensor

-----------------------------------------------------------------------------
(* C21: the result of compute() is memoized for every accumulator, tensor   *)
(* or delegated: an epoch read of an accumulator whose result is memoized   *)
(* returns it without running the reduction or the synchronization function *)
(* again and leaves it memoized; every update and every reset() of an       *)
(* accumulator leaves it with nothing memoized.                             *)

\* the collective calls a call made for leaf x of the entry under k
SyncsOf(r, k, x) == {i \in DOMAIN r.syncs : r.syncs[i].key = k /\ r.syncs[i].leaf = x}

C21_Step ==
    /\ (call'.op = "log" /\ err' = "") =>
          \A x \in DOMAIN items'[call'.key].leaves : IsNone(items'[call'.key].leaves[x]._computed)
    /\ call'.op = "reset" =>
          \A k \in DOMAIN items \ {ExtraKey} : \A x \in DOMAIN items[k].leaves :
              ResetSelects(items[k].leaves[x], call'.metrics, call'.fx) =>
                  IsNone(items'[k].leaves[x]._computed)
    /\ (call'.op = "metrics" /\ ~call'.on_step) =>
          \A k \in DOMAIN items \ {ExtraKey} : \A x \in DOMAIN items[k].leaves :
              ~IsNone(items[k].leaves[x]._computed) =>
                  /\ items'[k].leaves[x]._computed = items[k].leaves[x]._computed
                  /\ SyncsOf(ret', k, x) = {}

C21_Memoized == [][C21_Step]_vars

-----------------------------------------------------------------------------
(* SpecGraph: two keys, a tensor and a mapping of two tensors, logged with  *)
(* and without enable_graph, the tensors with and without a grad_fn         *)

GradTensor(i, g) == Tensor(<<RInt(i)>>, "float", g)

GraphArgs ==
    {[DefaultArgs(<<"h">>, <<"a">>, Single(TensorLeaf(GradTensor(i, g)))) EXCEPT
         !.enable_graph = eg, !.reduce_fx = rf, !.batch_size = Some(2)] :
     i \in {2}, g \in BOOLEAN, eg \in BOOLEAN, rf \in {CallableFx("torch.mean"), CallableFx("max")}}
    \cup
    {[DefaultArgs(<<"h">>, <<"b">>, Mapping([x \in {"p", "q"} |-> TensorLeaf(GradTensor(2, g /\ x = "p"))])) EXCEPT
         !.enable_graph = eg, !.on_step = os, !.reduce_fx = CallableFx("sum")] :
     g \in BOOLEAN, eg \in BOOLEAN, os \in BOOLEAN}

InitGraph == InitWith({TRUE}, {}, "free")

NextGraph ==
    \/ \E a \in GraphArgs : Accepted(a) /\ FewUpdates(a) /\ Log(a)
    \/ \E on_step \in BOOLEAN : Metrics(on_step)
    \/ Reset(None, None)

SpecGraph == InitGraph /\ [][NextGraph]_vars

\* a tensor without its grad_fn, None staying None
Numbers(o) == IF IsNone(o) THEN None ELSE Some(Detach(Get(o)))

\* the numbers an accumulator holds, grad_fn aside
NumbersOf(m) ==
    [m EXCEPT !.value = Numbers(@), !.cumulated_batch_size = Numbers(@), !._forward_cache = Numbers(@)]

-----------------------------------------------------------------------------
(* C22: forward runs update with gradient tracking suspended exactly when   *)
(* the metadata's enable_graph (retain the computation graph) is false, and *)
(* with tracking untouched exactly when it is true; either way the numbers  *)
(* the accumulator holds afterwards are those update alone gives.           *)

C22_Step ==
    (call'.op = "log" /\ err' = "") =>
        LET key == call'.key
            a == call'.a
            value == LogDetach(a.value, a.enable_graph)
        IN  \A x \in DOMAIN items'[key].leaves :
                LET old == IF key \in DOMAIN items THEN items[key].leaves[x]
                           ELSE ResultMetric(Get(LogMeta(a)), value.leaves[x].is_tensor)
                IN  /\ (x \in ret'.no_grad) <=> ~a.enable_graph
                    /\ NumbersOf(items'[key].leaves[x]) =
                           NumbersOf(ClearReset(wrapped_update(old, value.leaves[x], batch_size', metricObjs, TRUE).m))

C22_ForwardScope == [][C22_Step]_vars

-----------------------------------------------------------------------------
(* C23: compute() of a tensor accumulator returns sync(value) divided by    *)
(* sync(cumulated_batch_size) under mean reduction and sync(value) under    *)
(* sum, min and max, sync(x) being the injected function applied to x with  *)
(* the name of the key's reduction and its group when synchronization is    *)
(* enabled, and x itself when it is not; with synchronization disabled the  *)
(* function is not called.                                                  *)

\* the SyncPolicy of an accumulator applied to x
Synced(m, x) ==
    IF m.meta.sync.should
    THEN CallSyncFn(m.meta.sync.fn, x, MetaKind(m.meta), m.meta.sync.group)
    ELSE x

\* the calls of the injected function one compute() makes
ComputeCalls(m) ==
    IF m.meta.sync.should
    THEN [i \in 1..(IF MetaKind(m.meta) = "mean" THEN 2 ELSE 1) |->
             [op |-> MetaKind(m.meta), group |-> m.meta.sync.group]]
    ELSE <<>>

C23_RawCompute ==
    /\ \A k \in TensorKeys :
          LET m == Acc(k)
              r == compute(m, metricObjs)
          IN  /\ MetaKind(m.meta) = "mean" =>
                    r.out.data = <<RDiv(Synced(m, Get(m.value)).data[1],
                                        Synced(m, Get(m.cumulated_batch_size)).data[1])>>
              /\ MetaKind(m.meta) \in {"sum", "min", "max"} =>
                    r.out.data = Synced(m, Get(m.value)).data
              /\ r.syncs = ComputeCalls(m)
    /\ (AfterRead /\ ~call.on_step) =>
          \A i \in DOMAIN ret.syncs :
              LET m == items[ret.syncs[i].key].leaves[ret.syncs[i].leaf]
              IN  /\ m.meta.sync.should
                  /\ ret.syncs[i].op = MetaKind(m.meta)
                  /\ m._computed = Some(compute([m EXCEPT !._computed = None], metricObjs).out)

\* an epoch read computed a synchronized sum with one call of the function,
\* which returned the running value summed over the processes
C23_Witness ==
    /\ AfterRead /\ ~call.on_step
    /\ \E k \in TensorKeys :
          /\ Acc(k).meta.sync.should /\ MetaKind(Acc(k).meta) = "sum"
          /\ Len(Updates(k)) >= 2
          /\ Cardinality(SyncsOf(ret, k, SelfLeaf)) = 1
          /\ Get(Acc(k)._computed).data[1] = RMul(Get(Acc(k).value).data[1], RInt(WorldSize))

-----------------------------------------------------------------------------
(* SpecPair: two processes, each with a collection of its own, make the     *)
(* same calls with the same keys and metadata; the values and the weights   *)
(* they log are chosen independently.  The first process is the state       *)
(* variables; the second is `peer`.  Every key has synchronization enabled. *)

\* the second process after ResultCollection(training)
PeerInit == [items |-> <<>>, order |-> <<>>, batch_size |-> BatchSizeTensor(1), metricObjs |-> <<>>,
             err |-> "", syncs |-> <<>>]

PairValues == {FloatScalar(0), FloatScalar(2)}
\* the weight the second process passes; the first passes none and logs with 1
PairWeights == {Some(3)}

\* what the first process logs: an epoch-only mean, a forked sum holding a
\* mapping, a step-only max
PairArgs ==
    {[DefaultArgs(<<"h">>, <<"a">>, Single(TensorLeaf(v))) EXCEPT
         !.sync_dist = TRUE, !.sync_dist_fn = "all_reduce"] :
     v \in PairValues}
    \cup
    {[DefaultArgs(<<"h">>, <<"b">>, Mapping([x \in {"p", "q"} |-> TensorLeaf(IF x = "p" THEN v ELSE FloatScalar(2))])) EXCEPT
         !.sync_dist = TRUE, !.sync_dist_fn = "all_reduce", !.on_step = TRUE,
         !.reduce_fx = CallableFx("sum")] :
     v \in {FloatScalar(2)}}
    \cup
    {[DefaultArgs(<<"h">>, <<"c">>, Single(TensorLeaf(v))) EXCEPT
         !.sync_dist = TRUE, !.sync_dist_fn = "all_reduce", !.on_step = TRUE, !.on_epoch = FALSE,
         !.reduce_fx = CallableFx("max")] :
     v \in {FloatScalar(2)}}

\* the calls the second process may make when the first makes log(**a): the
\* same call, with a value and a weight of its own when the value is a tensor
PeerArgs(a) ==
    IF a.value.dict THEN {a}
    ELSE {[a EXCEPT !.value = Single(TensorLeaf(v)), !.batch_size = w] : v \in PairValues, w \in PairWeights}

\* the updates made to the keys ord since the last reset()
RECURSIVE LiveUpdates(_)
LiveUpdates(ord) ==
    IF ord = <<>> THEN 0
    ELSE Len(hist[ord[1]][CHOOSE x \in DOMAIN hist[ord[1]] : TRUE]) + LiveUpdates(Tail(ord))

InitPair == Construct({TRUE}, {}, "free") /\ peer = Some(PeerInit)

\* the second process after a log() that returned r
PeerLogged(p, r) ==
    [p EXCEPT !.items = r.d, !.order = r.ord, !.batch_size = r.bs, !.err = r.raised, !.syncs = r.syncs]

\* the second process after a metrics() that returned r
PeerRead(p, r) ==
    [p EXCEPT !.items = r.d, !.metricObjs = r.objs, !.err = r.raised, !.syncs = r.syncs]

\* the second process after a reset() that returned r
PeerReset(p, r) ==
    [p EXCEPT !.items = r.d, !.metricObjs = r.objs, !.err = "", !.syncs = <<>>]

\* both processes call log(): the first with a, the second with b
PairLog(a, b) ==
    /\ LogBody(a)
    /\ peer' = Some(PeerLogged(Get(peer),
                               log(Get(peer).items, Get(peer).order, Get(peer).batch_size, Get(peer).metricObjs, b)))
    /\ UNCHANGED pc

\* both processes call metrics(on_step)
PairMetrics(on_step) ==
    /\ MetricsBody(on_step)
    /\ peer' = Some(PeerRead(Get(peer),
                             metrics(Get(peer).items, Get(peer).order, Get(peer).metricObjs, on_step, training)))
    /\ UNCHANGED pc

\* both processes call reset()
PairReset ==
    /\ ResetBody(None, None)
    /\ peer' = Some(PeerReset(Get(peer), reset(Get(peer).items, Get(peer).order, Get(peer).metricObjs, None, None)))
    /\ UNCHANGED pc

NextPair ==
    \/ \E a \in PairArgs : \E b \in PeerArgs(a) : LiveUpdates(order) < MaxReadUpdates /\ PairLog(a, b)
    \/ \E on_step \in BOOLEAN : PairMetrics(on_step)
    \/ PairReset

SpecPair == InitPair /\ [][NextPair]_vars

-----------------------------------------------------------------------------
(* C24: two processes that make the same log(), metrics() and reset() calls *)
(* with the same keys and metadata, whatever values and weights each logs,  *)
(* call the synchronization function the same number of times, for the same *)
(* (key, op) in the same order, in every call; and a call raises in one     *)
(* exactly when it raises in the other.                                     *)

C24_MatchingCollectives ==
    ~IsNone(peer) =>
        /\ ret.syncs = Get(peer).syncs
        /\ err = Get(peer).err
        /\ order = Get(peer).order

\* a repeated epoch read issued no collective in either process while one
\* holds a memoized zero and the other a memoized non-zero for the same key
C24_Witness ==
    /\ ~IsNone(peer)
    /\ call.op = "metrics" /\ ~call.on_step /\ ret.syncs = <<>>
    /\ \E k \in DOMAIN items :
          /\ items[k].kind = "metric"
          /\ Get(items[k].meta).sync.should
          /\ ~IsNone(Acc(k)._computed) /\ ~Truthy(Get(Acc(k)._computed))
          /\ ~IsNone(Get(peer).items[k].leaves[SelfLeaf]._computed)
          /\ Truthy(Get(Get(peer).items[k].leaves[SelfLeaf]._computed))

-----------------------------------------------------------------------------
(* C25: no metrics() read and no compute() returns, for an accumulator that *)
(* was not updated since its last reset(), anything derived from the        *)
(* updates that preceded the reset: a step read returns nothing for it, an  *)
(* epoch read and compute() return what a newly created accumulator gives.  *)

\* the accumulator of leaf x under key k was reset and not updated since
Untouched(k, x) == items[k].leaves[x].has_reset /\ hist[k][x] = <<>>

\* what compute() gives for a newly created accumulator like m: the reduction
\* of no update for a tensor, the state the delegate is in now for a delegate
FreshCompute(m) ==
    IF m.is_tensor THEN compute(ResultMetric(m.meta, TRUE), metricObjs).out
    ELSE metricObjs[Get(m.delegate)].x

C25_NoStaleValues ==
    /\ \A k \in DOMAIN items \ {ExtraKey} : \A x \in DOMAIN items[k].leaves :
          Untouched(k, x) =>
              wrapped_compute(items[k].leaves[x], metricObjs).out.data = FreshCompute(items[k].leaves[x]).data
    /\ AfterRead =>
          \A i \in DOMAIN ret.writes : \A x \in DOMAIN ret.writes[i].value.leaves :
              Untouched(ret.writes[i].key, x) =>
                  /\ ~call.on_step
                  /\ ret.writes[i].value.leaves[x].data = FreshCompute(items[ret.writes[i].key].leaves[x]).data

-----------------------------------------------------------------------------
(* SpecGroup: one key whose value is a mapping of two tensors, logged with  *)
(* values that differ from leaf to leaf and from call to call, with and     *)
(* without a weight, under mean, max and step-only timing; read and reset   *)

GroupValues ==
    {Mapping([x \in {"p", "q"} |-> TensorLeaf(IF x = "p" THEN FloatScalar(vp) ELSE FloatScalar(vq))]) :
     vp \in {2, 0}, vq \in {-1, 3}}

GroupArgs ==
    {[DefaultArgs(<<"h">>, <<"b">>, v) EXCEPT !.reduce_fx = rf, !.on_epoch = oe, !.on_step = ~oe, !.batch_size = w] :
     v \in GroupValues, rf \in {CallableFx("torch.mean"), CallableFx("max")}, oe \in BOOLEAN,
     w \in {None, Some(2)}}

InitGroup == InitWith({TRUE}, {}, "free")

NextGroup ==
    \/ \E a \in GroupArgs : Accepted(a) /\ FewUpdates(a) /\ Log(a)
    \/ \E on_step \in BOOLEAN : Metrics(on_step)
    \/ \E metricsArg \in {None, Some(FALSE), Some(TRUE)} : Reset(metricsArg, None)

SpecGroup == InitGroup /\ [][NextGroup]_vars

\* a standalone accumulator with the metadata of m, fed the updates h[i..] alone
RECURSIVE Replay(_, _, _)
Replay(m, h, i) ==
    IF i > Len(h) THEN m
    ELSE Replay(ClearReset(wrapped_update(m, TensorLeaf(h[i].t), IntScalar(h[i].w), metricObjs, TRUE).m), h, i + 1)

-----------------------------------------------------------------------------
(* C26: a key first logged with a mapping holds one accumulator per leaf of *)
(* that mapping, each with the metadata of the group; every log() on the    *)
(* key feeds each leaf value to the accumulator of the same name only, so   *)
(* each leaf holds and computes what a standalone accumulator fed with that *)
(* leaf's values alone does; reset() resets every leaf.                     *)

GroupKeys == {k \in DOMAIN items : items[k].kind = "collection"}

C26_State ==
    \A k \in GroupKeys : \A x \in DOMAIN items[k].leaves :
        LET m == items[k].leaves[x]
            alone == Replay(ResultMetric(Get(items[k].meta), TRUE), hist[k][x], 1)
        IN  /\ m.meta = Get(items[k].meta)
            /\ m.value = alone.value
            /\ m.cumulated_batch_size = alone.cumulated_batch_size
            /\ m._forward_cache = alone._forward_cache
            /\ compute(m, metricObjs).out = compute(alone, metricObjs).out

C26_Step ==
    /\ (call'.op = "log" /\ err' = "" /\ call'.a.value.dict) =>
          /\ DOMAIN items'[call'.key].leaves = DOMAIN call'.a.value.leaves
          /\ call'.key \in DOMAIN items => DOMAIN items'[call'.key].leaves = DOMAIN items[call'.key].leaves
          /\ \A x \in DOMAIN call'.a.value.leaves :
                items'[call'.key].leaves[x]._forward_cache = Some(ToFloat(call'.a.value.leaves[x].t))
    /\ (call'.op = "reset" /\ call'.metrics # Some(TRUE)) =>
          \A k \in GroupKeys : \A x \in DOMAIN items[k].leaves :
              items'[k].leaves[x].has_reset /\ hist'[k][x] = <<>>

C26_GroupLeaves == [](C26_State) /\ [][C26_Step]_vars

\* two logs fed different values to the two leaves of a mean group, which hold
\* different sums
C26_Witness ==
    /\ call.op = "log" /\ err = ""
    /\ \E k \in GroupKeys :
          /\ Len(hist[k]["p"]) = 2 /\ hist[k]["p"][1].t # hist[k]["p"][2].t
          /\ hist[k]["p"][1].w # hist[k]["p"][2].w
          /\ is_mean_reduction(Get(items[k].meta)) /\ Get(items[k].meta).on_epoch
          /\ items[k].leaves["p"].value # items[k].leaves["q"].value

-----------------------------------------------------------------------------
(* SpecStep: one tensor key logged on_step, with and without on_epoch,      *)
(* under every reduction, with explicit and inherited batch weights, with   *)
(* and without synchronization                                              *)

StepArgs ==
    {[DefaultArgs(<<"h">>, <<"a">>, Single(TensorLeaf(t))) EXCEPT
         !.on_step = TRUE, !.on_epoch = oe, !.reduce_fx = rf, !.sync_dist = sd,
         !.sync_dist_fn = "all_reduce", !.batch_size = bs] :
     t \in LoggedTensors, oe \in BOOLEAN, rf \in AccumReductions, sd \in BOOLEAN, bs \in {None, Some(2)}}

InitStep == InitWith({TRUE}, {}, "free")

NextStep ==
    \/ \E a \in StepArgs : Accepted(a) /\ FewUpdates(a) /\ Log(a)
    \/ \E on_step \in BOOLEAN : Metrics(on_step)
    \/ Reset(None, None)

SpecStep == InitStep /\ [][NextStep]_vars

-----------------------------------------------------------------------------
(* C27: a tensor key logged with on_step and without on_epoch never         *)
(* accumulates: after every update the running value is the SyncPolicy      *)
(* applied to the value of that update alone, the cumulated weight is what  *)
(* it was at creation and the forward cache is that value, whatever the     *)
(* reduction and the batch weight.                                          *)

StepOnlyKeys == {k \in TensorKeys : Acc(k).meta.on_step /\ ~Acc(k).meta.on_epoch}

C27_StepOnly ==
    \A k \in StepOnlyKeys :
        Len(Updates(k)) >= 1 =>
            LET m == Acc(k)
                last == ToFloat(Updates(k)[Len(Updates(k))].t)
            IN  /\ m.value = Some(Synced(m, last))
                /\ m.cumulated_batch_size = ResultMetric(m.meta, TRUE).cumulated_batch_size
                /\ m._forward_cache = Some(last)

\* a synchronized step-only mean was updated twice, with different values
\* and different weights, the last value a tensor of two elements
C27_Witness ==
    \E k \in StepOnlyKeys :
        /\ Len(Updates(k)) = 2
        /\ is_mean_reduction(Acc(k).meta) /\ Acc(k).meta.sync.should
        /\ Updates(k)[1].t # Updates(k)[2].t /\ Updates(k)[1].w # Updates(k)[2].w
        /\ Len(Updates(k)[2].t.data) = 2
        /\ Acc(k).value = Some(ToFloat(Updates(k)[2].t))

-----------------------------------------------------------------------------
(* C28: a log() that raises the configuration error, for a reduction        *)
(* selector that is not recognized or for metadata that differs from the    *)
(* stored one, changes nothing: the keys, their order, every accumulator    *)
(* (state, caches, has_reset), the Metric objects and the current batch     *)
(* weight are what they were, also when the call passed a batch size.       *)

C28_Step ==
    (call'.op = "log" /\ err' = "MisconfigurationException") =>
        /\ items' = items /\ order' = order
        /\ batch_size' = batch_size
        /\ metricObjs' = metricObjs /\ minimize' = minimize
        /\ hist' = hist

C28_FailedLogNoEffect == [][C28_Step]_vars

\* a log() with other metadata and a batch size of 2 was refused on a key
\* that was updated and read; the batch weight is still 1
C28_Witness ==
    /\ call.op = "log" /\ err = "MisconfigurationException"
    /\ call.a.batch_size = Some(2)
    /\ ~IsNone(NormalizeReduceFx(call.a.reduce_fx))
    /\ batch_size = BatchSizeTensor(1)
    /\ call.key \in DOMAIN items
    /\ Len(hist[call.key][SelfLeaf]) >= 1
    /\ ~IsNone(items[call.key].leaves[SelfLeaf]._computed)

-----------------------------------------------------------------------------
(* SpecSites: the name "a" logged from two call-sites, one of them forked,  *)
(* and a third key whose name is "a_epoch"; read and reset                  *)

SiteArgs ==
    {[DefaultArgs(<<"h">>, <<"a">>, Single(TensorLeaf(FloatScalar(1)))) EXCEPT !.on_step = TRUE],
     DefaultArgs(<<"g">>, <<"a">>, Single(TensorLeaf(FloatScalar(2)))),
     DefaultArgs(<<"g">>, <<"a", "_epoch">>, Single(TensorLeaf(FloatScalar(3))))}

InitSites == InitWith({TRUE}, {}, "free")

NextSites ==
    \/ \E a \in SiteArgs : FewUpdates(a) /\ Log(a)
    \/ \E on_step \in BOOLEAN : Metrics(on_step)
    \/ Reset(None, None)

SpecSites == InitSites /\ [][NextSites]_vars

-----------------------------------------------------------------------------
(* C29: in one metrics(on_step) read no two registered keys write to the    *)
(* same name of the same bucket, so no key's value is overwritten by        *)
(* another's, also when one name is logged from two call-sites and when the *)
(* forked name of one key is the plain name of another.                     *)

C29_NoNameClash ==
    AfterRead =>
        \A i, j \in DOMAIN ret.writes :
            (ret.writes[i].source = ret.writes[j].source /\ ret.writes[i].name = ret.writes[j].name) =>
                ret.writes[i].key = ret.writes[j].key

-----------------------------------------------------------------------------
(* SpecFilter: a tensor key and a key holding a mapping of a tensor and a   *)
(* Metric, from two call-sites, logged with the first call's arguments or   *)
(* with one display, timing or reduction argument changed; read at epoch    *)
(* end and reset under every filter, the Metric also updated by its owner   *)

FilterArgs ==
    LET h == DefaultArgs(<<"h">>, <<"a">>, Single(TensorLeaf(FloatScalar(2))))
        g == DefaultArgs(<<"g">>, <<"d">>,
                         Mapping([x \in {"p", "q"} |-> IF x = "p" THEN TensorLeaf(FloatScalar(2)) ELSE MetricLeaf("mB")]))
    IN  {h, [h EXCEPT !.prog_bar = ~@], [h EXCEPT !.reduce_fx = CallableFx("torch.sum")],
         g, [g EXCEPT !.logger = ~@]}

FilterSites == {None, Some(<<"h">>), Some(<<"g">>)}

InitFilter == InitWith({TRUE}, {"mB"}, "free")

NextFilter ==
    \/ \E a \in FilterArgs : FewUpdates(a) /\ Log(a)
    \/ \E metricsArg \in {None, Some(TRUE), Some(FALSE)}, fx \in FilterSites : Reset(metricsArg, fx)
    \/ Metrics(FALSE)
    \/ metricObjs["mB"].x.data[1].n < MaxForwards /\ MetricForward("mB", IntScalar(1))

SpecFilter == InitFilter /\ [][NextFilter]_vars

-----------------------------------------------------------------------------
(* C30: reset(), with any filter, leaves the registered keys, their order   *)
(* and the metadata stored for each key and each accumulator unchanged.  So *)
(* a log() on a registered key right after a reset raises the configuration *)
(* error exactly when its metadata differs from the stored one, and         *)
(* otherwise registers nothing and updates the accumulators that are there. *)

C30_ResetStep ==
    call'.op = "reset" =>
        /\ DOMAIN items' = DOMAIN items
        /\ order' = order
        /\ \A k \in DOMAIN items :
              /\ items'[k].meta = items[k].meta
              /\ items'[k].kind = items[k].kind
              /\ DOMAIN items'[k].leaves = DOMAIN items[k].leaves
              /\ \A x \in DOMAIN items[k].leaves :
                    /\ items'[k].leaves[x].meta = items[k].leaves[x].meta
                    /\ items'[k].leaves[x].is_tensor = items[k].leaves[x].is_tensor
                    /\ items'[k].leaves[x].delegate = items[k].leaves[x].delegate

C30_LogStep ==
    (call.op = "reset" /\ call'.op = "log" /\ call'.key \in DOMAIN items) =>
        LET key == call'.key
            a == call'.a
        IN  /\ (err' = "MisconfigurationException") <=> ArgsDiffer(a, Get(items[key].meta))
            /\ (err' = "MisconfigurationException") => items' = items /\ order' = order
            /\ (err' # "MisconfigurationException") =>
                  /\ err' = ""
                  /\ order' = order /\ DOMAIN items' = DOMAIN items
                  /\ items'[key].meta = items[key].meta
                  /\ \A x \in DOMAIN items[key].leaves :
                        /\ items'[key].leaves[x] =
                               ClearReset(wrapped_update(items[key].leaves[x], a.value.leaves[x],
                                                         batch_size', metricObjs, TRUE).m)
                        /\ hist'[key][x] = Append(hist[key][x], hist'[key][x][Len(hist'[key][x])])

C30_ResetKeepsKeys == [][C30_ResetStep /\ C30_LogStep]_vars

\* a filtered reset emptied the Metric accumulator of a key and left its
\* tensor accumulator, which has an update, alone; the log() that followed
\* changed the metadata and was refused
C30_Witness ==
    /\ call.op = "log" /\ err = "MisconfigurationException" /\ call.key = <<"g", ".", "d">>
    /\ call.key \in DOMAIN items
    /\ items[call.key].leaves["q"].has_reset /\ ~items[call.key].leaves["p"].has_reset
    /\ Len(hist[call.key]["p"]) = 1 /\ Len(hist[call.key]["q"]) = 0

-----------------------------------------------------------------------------
(* SpecFrame: three keys, a tensor logged with and without a weight, a     *)
(* mapping of a tensor and a Metric, and the same Metric logged on its own *)
(* from another call-site; read at epoch end, reset as a whole and for one *)
(* call-site                                                                *)

FrameArgs ==
    {[DefaultArgs(<<"h">>, <<"a">>, Single(TensorLeaf(FloatScalar(2)))) EXCEPT !.on_step = TRUE, !.batch_size = bs] :
         bs \in {None, Some(3)}}
    \cup {DefaultArgs(<<"g">>, <<"d">>,
                      Mapping([x \in {"p", "q"} |-> IF x = "p" THEN TensorLeaf(FloatScalar(2)) ELSE MetricLeaf("mB")])),
          DefaultArgs(<<"h">>, <<"m">>, Single(MetricLeaf("mB")))}

InitFrame == InitWith({TRUE}, {"mB"}, "free")

\* the key of a is new, or not updated since its last reset
Unlogged(a) ==
    LET key == StorageKey(a.fx, a.name, a.dataloader_idx)
    IN  key \in DOMAIN hist => \A x \in DOMAIN hist[key] : hist[key][x] = <<>>

NextFrame ==
    \/ \E a \in FrameArgs : (IF a.name = <<"a">> THEN FewUpdates(a) ELSE Unlogged(a)) /\ Log(a)
    \/ \E fx \in {None, Some(<<"g">>)} : Reset(None, fx)
    \/ Metrics(FALSE)
    \/ metricObjs["mB"].x.data[1].n < MaxForwards /\ MetricForward("mB", IntScalar(1))

SpecFrame == InitFrame /\ [][NextFrame]_vars

-----------------------------------------------------------------------------
(* C31: a log() that succeeds on a key changes the accumulators stored      *)
(* under that key and, when it is given a weight, the current batch weight, *)
(* and nothing else: every other registered key stays registered, in the    *)
(* same place, with the same running value, cumulated weight, forward       *)
(* cache, memoized result and has_reset flag, and the Metric objects are    *)
(* not touched.                                                             *)

C31_Step ==
    (call'.op = "log" /\ err' = "") =>
        LET key == call'.key
            a == call'.a
        IN  /\ \A k \in DOMAIN items \ {key} :
                  /\ k \in DOMAIN items'
                  /\ items'[k] = items[k]
                  /\ hist'[k] = hist[k]
            /\ DOMAIN items' = DOMAIN items \cup {key}
            /\ order' = (IF key \in DOMAIN items THEN order ELSE Append(order, key))
            /\ batch_size' = (IF IsNone(a.batch_size) THEN batch_size ELSE BatchSizeTensor(Get(a.batch_size)))
            /\ metricObjs' = metricObjs
            /\ minimize' = minimize /\ training' = training

C31_LogFrame == [][C31_Step]_vars

\* a weighted log() on one key changed the batch weight while a second key
\* held a memoized result and a third had just been reset
C31_Witness ==
    /\ call.op = "log" /\ err = "" /\ call.key = <<"h", ".", "a">>
    /\ call.a.batch_size = Some(3) /\ batch_size = BatchSizeTensor(3)
    /\ Len(hist[call.key][SelfLeaf]) = 2
    /\ <<"h", ".", "m">> \in DOMAIN items /\ <<"g", ".", "d">> \in DOMAIN items
    /\ ~IsNone(items[<<"h", ".", "m">>].leaves[SelfLeaf]._computed)
    /\ items[<<"g", ".", "d">>].leaves["p"].has_reset
    /\ items[<<"g", ".", "d">>].leaves["q"].has_reset

-----------------------------------------------------------------------------
(* SpecReadBack: the three kinds of key, each logged once between resets,  *)
(* read per step and at epoch end, the Metric also updated by its owner     *)

ReadBackArgs ==
    {[DefaultArgs(<<"h">>, <<"a">>, Single(TensorLeaf(FloatScalar(2)))) EXCEPT !.on_step = TRUE],
     DefaultArgs(<<"g">>, <<"d">>,
                 Mapping([x \in {"p", "q"} |-> IF x = "p" THEN TensorLeaf(FloatScalar(2)) ELSE MetricLeaf("mB")])),
     DefaultArgs(<<"h">>, <<"m">>, Single(MetricLeaf("mB")))}

InitReadBack == InitWith({TRUE}, {"mB"}, "free")

NextReadBack ==
    \/ \E a \in ReadBackArgs : Unlogged(a) /\ Log(a)
    \/ Reset(None, None)
    \/ \E on_step \in BOOLEAN : Metrics(on_step)
    \/ metricObjs["mB"].x.data[1].n < MaxForwards /\ MetricForward("mB", IntScalar(1))

SpecReadBack == InitReadBack /\ [][NextReadBack]_vars

-----------------------------------------------------------------------------
(* C32: metrics(on_step) does not alter accumulation state.  It writes      *)
(* nothing but memoized compute results; a read that follows other reads,   *)
(* of either kind, returns the buckets it would have returned without them; *)
(* and the buckets of a read that follows further updates are the ones it   *)
(* would have returned had the earlier read not happened.                   *)

\* the dict and the Metric objects without their memoized compute results
Forget(d) ==
    [k \in DOMAIN d |-> [d[k] EXCEPT !.leaves = [x \in DOMAIN @ |-> [@[x] EXCEPT !._computed = None]]]]

ForgetObjs(objs) == [m \in DOMAIN objs |-> [objs[m] EXCEPT !._computed = None]]

C32_Step ==
    call'.op = "metrics" =>
        /\ Forget(items') = Forget(items)
        /\ ForgetObjs(metricObjs') = ForgetObjs(metricObjs)
        /\ batch_size' = batch_size /\ order' = order /\ hist' = hist
        /\ minimize' = minimize /\ training' = training

\* what happens between two reads: a log(), the owner's update of the Metric,
\* a reset followed by a log()
LaterUpdates ==
    {[kind |-> "log", a |-> a] : a \in ReadBackArgs}
    \cup {[kind |-> "forward", a |-> <<>>]}
    \cup {[kind |-> "reset, log", a |-> a] : a \in ReadBackArgs}

\* log(a) can be called: its Metric leaves have been updated by their owner
Loggable(a, objs) ==
    \A x \in DOMAIN a.value.leaves :
        ~a.value.leaves[x].is_tensor => ~IsNone(objs[a.value.leaves[x].m]._forward_cache)

\* the buckets metrics(on_step) returns once log() has returned l
ReadAfterLog(l, objs, on_step) ==
    IF l.raised # "" THEN <<l.raised>> ELSE metrics(l.d, l.ord, objs, on_step, training).buckets

ReadAfterReset(r, u, on_step) ==
    ReadAfterLog(log(r.d, order, batch_size, r.objs, u.a), r.objs, on_step)

\* the buckets metrics(on_step) returns after u, from the dict d and the objects objs
Later(d, objs, u, on_step) ==
    IF u.kind = "log"
    THEN IF Loggable(u.a, objs) THEN ReadAfterLog(log(d, order, batch_size, objs, u.a), objs, on_step) ELSE <<>>
    ELSE IF u.kind = "forward"
    THEN metrics(d, order, [objs EXCEPT !["mB"] = DummyForward(@, IntScalar(1))], on_step, training).buckets
    ELSE IF Loggable(u.a, objs) THEN ReadAfterReset(reset(d, order, objs, None, None), u, on_step) ELSE <<>>

\* r is what a first read returned
SameLater(r, on_step) ==
    r.raised = "" =>
        /\ metrics(r.d, order, r.objs, on_step, training).buckets
               = metrics(items, order, metricObjs, on_step, training).buckets
        /\ \A u \in LaterUpdates : Later(r.d, r.objs, u, on_step) = Later(items, metricObjs, u, on_step)

C32_State ==
    \A first \in BOOLEAN, on_step \in BOOLEAN :
        SameLater(metrics(items, order, metricObjs, first, training), on_step)

C32_ReadTransparent == [](C32_State) /\ [][C32_Step]_vars

====
